---- MODULE Spec2Model ----
(***************************************************************************)
(* A model of the KB daemon's capture-to-knowledge pipeline:               *)
(*   - the capture queue and the batch scheduler loop                      *)
(*     (kb_daemon.py, KBDaemon.process_queue / _process_events / stop),    *)
(*   - the durable store and its review state machine                      *)
(*     (storage/db_manager.py, DatabaseManager).                           *)
(*   - the categorizer, the summarizer and the shell monitor               *)
(*     (process/categorizer.py, process/summarizer.py,                     *)
(*     capture/shell_monitor.py).                                          *)
(* Spec      : the daemon (producers, the consumer loop, shutdown).        *)
(* LiveSpec  : Spec with the consumer thread scheduled fairly.             *)
(* StoreSpec : the operations of DatabaseManager on one database file.     *)
(* KbSpec    : the kb_entries table under its operations.                  *)
(* CatSpec   : ActivityCategorizer.categorize_batch on batches of events.  *)
(* SumSpec   : CatSpec feeding ActivitySummarizer.summarize.               *)
(* ShellSpec : ShellMonitor._process_command on the events it reads.       *)
(* ProcSpec  : _process_events with the categorizer and the summarizer.    *)
(* StatSpec  : get_statistics between the operations of the store.         *)
(* SchemaSpec: DatabaseManager constructed on files of an earlier version. *)
(* PidSpec   : start, stop and status of the daemon through its PID file  *)
(*             (process/process_manager.py, kb_daemon.py main).            *)
(* CfgSpec   : a daemon started on each settings file there can be.        *)
(* ShadowSpec: ProcSpec with daemon.shadow_mode set.                       *)
(* ReviewSpec: CLI.daily_review on the store (interface/cli.py).           *)
(* ImpSpec   : categorize_event called on one event.                       *)
(* SessSpec  : _detect_session called on one context window.              *)
(* WinSpec   : categorize_batch on batches longer than its window.         *)
(* DataSpec  : categorize_batch on events with and without a payload.      *)
(* PairSpec  : _extract_problems_solved called on one batch of runs.       *)
(* FrameSpec : every writer of the store beside the rows of events.        *)
(* PassSpec  : daily_review in two steps, store_event between them.        *)
(* RaceSpec  : start commands side by side, each in its two halves.        *)
(***************************************************************************)
EXTENDS Integers, Sequences, FiniteSets, TLC

(***************************************************************************)
(* Bounds of the model.                                                    *)
(***************************************************************************)
\* Number of events the capture sources enqueue in one run.
MaxEvents == 5
\* Number of events enqueued in one run of LiveSpec.
MaxLiveEvents == 3
\* The per-tick drain cap of process_queue.  The source has 1000
\* (kb_daemon.py:146); the model scales it down so that a queue longer
\* than the cap is reachable.
DrainCap == 4
\* config['processing']['batch_size'] (settings.yml is not part of src/).
BatchSize == 2
\* config['daemon']['process_interval'], in seconds.
ProcessInterval == 3
\* Longest time, in seconds, one loop iteration (drain, dispatch, sleep) takes.
MaxStep == 2
\* config['processing']['min_importance'].
MinImportance == 3
\* Rows of table events and calls of mark_events_reviewed in one run of
\* StoreSpec.
MaxRows == 2
MaxMarks == 2
\* Rows ever inserted into kb_entries in one run of KbSpec.
MaxKbEntries == 2
\* The host's offset from UTC, in seconds.
TzOffset == 1
\* Events handed to categorize_batch in one run of CatSpec.
MaxCatEvents == 4
\* Calls of summarize, and ticks of its clock, in one run of CatSpec.
MaxSummarizeCalls == 2
\* Shell events the shell monitor reads in one run of ShellSpec.
MaxShellEvents == 4
\* Events handed to _process_events in one run of ProcSpec.
MaxProcEvents == 6
\* activities[:10] of _extract_key_activities.  The source has 10
\* (summarizer.py:120); the model scales it down so that a batch with more
\* key activities than the cap is reachable.
KeyActivitiesCap == 3
\* Process ids of the host, and commands and cleanups in one run of PidSpec.
MaxPids == 3
MaxCommands == 3
\* Rows of table events, and invocations of daily_review that run to
\* completion, in one run of ReviewSpec.
MaxReviewRows == 2
MaxReviews == 2
\* Rows of table events, and invocations of daily_review that run to
\* completion, in one run of PassSpec.
MaxPassRows == 3
MaxPasses == 2
\* Events of a context window handed to _detect_session: those before a
\* run of unremarkable events, and those after it.
MaxOldEvents == 1
MaxNewEvents == 3
\* Events handed to categorize_batch in one run of WinSpec, and the longest
\* batch among them.
MaxWinEvents == 53
MaxWinBatch == 3
\* Events handed to categorize_batch in one run of DataSpec.
MaxDataEvents == 3
\* Events of a batch handed to _extract_problems_solved on its own.
MaxPairEvents == 4
\* Rows of table events and calls of mark_events_reviewed in one run of
\* FrameSpec.
MaxFrameRows == 2
MaxFrameMarks == 1
\* Rows written to all tables, and calls of get_statistics, in one run of
\* StatSpec.
MaxStatWrites == 3
MaxStatCalls == 2
\* Rows of the events table a database file of an earlier version holds,
\* rows of the table, and constructions of DatabaseManager on the file, in
\* one run of SchemaSpec.
MaxLegacyRows == 2
MaxSchemaRows == 3
MaxConstructions == 2

(***************************************************************************)
(* Program constants.                                                      *)
(***************************************************************************)
\* time.sleep(1) at the end of every iteration of process_queue.
SleepSeconds == 1
\* _process_events summarizes when more than this many events are important.
SummarizeAbove == 5
\* The importance track_project_switch gives a project_switch event.
SwitchImportance == 5
\* ---- capture/shell_monitor.py ----
\* len(self.command_history) > 100, self.command_history[-10:]
HistoryCap == 100
RecentCommands == 10
\* _is_important_command: data.get('duration', 0) > 5
ImportantDuration == 5
\* _calculate_command_importance: 5, 8 and 6; one more above 30 seconds
\* and above 60; min(importance, 10)
BaseCommandImportance == 5
HighCommandImportance == 8
MediumCommandImportance == 6
SlowCommand == 30
SlowerCommand == 60
\* _process_command: min(importance + 2, 10) for a failure, 8 for a fix
FailureBonus == 2
FixImportance == 8
\* _detect_patterns: 3 commands of history, 3 test runs, 2 dependency
\* commands
PatternMinHistory == 3
DebuggingMinTests == 3
DependencyMinCommands == 2
\* ---- process/categorizer.py ----
\* len(self.context_window) > 50
ContextWindowCap == 50
\* self.context_window[-10:], the events session detection reads
RecentWindow == 10
\* self.context_window[-5:], the events `multiple_test_runs` reads
TestRunWindow == 5
\* importance_factors.get(category, 5)
DefaultWeight == 5
\* max(event.get('importance', 5) - 2, 1) for a work-in-progress commit
WipPenalty == 2
\* max(base_importance, 9), min(base_importance + 2, 10),
\* max(base_importance, 7) and `duration > 60` in _calculate_importance
BreakingFloor == 9
ErrorBonus == 2
MaxImportance == 10
ExternalFloor == 7
LongDuration == 60
\* _detect_session: len(self.context_window) < 3, len(feature_indicators)
\* >= 3, len(learning_indicators) >= 2
SessionMinEvents == 3
FeatureMinEvents == 3
LearningMinEvents == 2
\* timedelta.seconds counts the seconds of the last, incomplete day.
SecondsPerDay == 86400
\* ---- process/summarizer.py ----
\* event.get('importance', 0) >= 7
KeyImportance == 7
\* decisions[:5], problems[:5], learning[:5]
DecisionsCap == 5
ProblemsCap == 5
LearningCap == 5
\* activities[:3], decisions[:3], problems[:2], learning[:2] in the text
TextActivities == 3
TextDecisions == 3
TextProblems == 2
TextLearning == 2
\* ---- storage/db_manager.py, get_statistics ----
\* WHERE reviewed = 0 AND importance >= 3
StatisticsFloor == 3
\* round(avg, 2): the mean importance is kept in hundredths.
Hundredths == 100
\* ---- interface/cli.py ----
\* get_unreviewed_events(min_importance=3)
ReviewMinImportance == 3
\* summary.get('key_activities', [])[:5]
ReviewActivities == 5

VARIABLES
    \* ---- daemon (kb_daemon.py) ----
    queue,          \* self.capture_queue: FIFO of captured events
    nextId,         \* arrival number of the next captured event
    running,        \* self.running
    alive,          \* the daemon process has not exited
    pc,             \* position of the process_queue thread
    buffer,         \* events_buffer (local of process_queue)
    elapsed,        \* current_time - last_process_time, as of the last sample
    shouldProcess,  \* should_process (local of process_queue)
    slept,          \* the loop has completed an iteration (and slept)
    currentProject, \* self.current_project
    \* history of the daemon, read by the properties only
    tickElapsed,    \* elapsed time the last trigger check saw
    tickLen,        \* len(events_buffer) the last trigger check saw
    dispatched,     \* the last completed iteration dispatched a batch
    batches,        \* every batch handed to _process_events, in order
    catInput,       \* list passed to categorize_batch by the last dispatch
    sumInput,       \* list passed to summarize by the last dispatch (or <<>>)
    storeInput,     \* events passed to store_event by the last dispatch
    \* ---- store (storage/db_manager.py): one database file ----
    eventsTable,    \* table events, in rowid order (committed content)
    txn,            \* the open write transaction of mark_events_reviewed
    clock,          \* datetime.now(timezone.utc), counted in calls
    kbEntries,      \* table kb_entries, in rowid order
    nextKbId,       \* AUTOINCREMENT counter of kb_entries
    reviewSessions, \* number of rows of review_sessions
    summaries,      \* number of rows of summaries
    \* history of the store, read by the properties only
    inputs,         \* inputs[i]: the dict store_event was given for row i
    everReviewed,   \* ids of the events a committed call has marked reviewed
    kbApproveCalled,\* ids approve_kb_entry was called with while they existed
    kbDeleteCalled, \* ids delete_kb_entry was called with
    \* ---- categorizer and summarizer (process/) ----
    contextWindow,  \* self.context_window of the categorizer
    windowBefore,   \* the context window the last categorize_batch began with
    lastCategorized,\* the list the last categorize_batch returned
    now,            \* the last reading of the wall clock
    summarizeCalls, \* calls of summarize so far
    lastSummary,    \* the last call of summarize: its list, time and result
    prevSummary,    \* the call of summarize before it
    \* ---- shell monitor (capture/shell_monitor.py) ----
    commandHistory, \* self.command_history
    lastError,      \* self.last_error: <<>> (None) or <<event>>
    shellOut,       \* what _process_command returned for each event read:
                    \* <<>> (None) or <<event>>
    \* ---- _process_events (kb_daemon.py) on the real pipeline ----
    procEvents,     \* events handed to _process_events so far
    eventsStored,   \* dicts the last _process_events gave store_event, a row each
    summariesStored,\* rows the last _process_events had store_summary insert
    \* ---- the database file and its statistics (storage/db_manager.py) ----
    stats,          \* what the last get_statistics returned: <<>> or <<dict>>
    statCalls,      \* calls of get_statistics so far
    eventColumns,   \* the columns of table events; {} while there is no table
    constructions,  \* DatabaseManager objects constructed on the file so far
    found,          \* found[k]: the table events the k-th construction found
    \* ---- the PID file and the processes of the host (process_manager.py) ----
    pidFile,        \* daemon.pid: <<>> (no file) or <<pid>>
    procs,          \* procs[pid]: what runs under pid, "free" if nothing
    lastCmd,        \* the last command or cleanup: who ran it and its outcome
    commands,       \* commands and cleanups run so far
    starting,       \* `start` commands between their check and their Popen
    \* ---- start-up on a settings file (kb_daemon.py) ----
    settings,       \* config/settings.yml as it is on disk
    daemonState,    \* "none", "failed" (KBDaemon() raised), "running", "stopped"
    consumerState,  \* the process_queue thread: "none", "started", "looping", "dead"
    \* ---- shadow mode (kb_daemon.py) ----
    shadowMode,     \* config['daemon'].get('shadow_mode', False)
    shadowLogs,     \* the lists written to logs/shadow_*.json, in order
    \* ---- the review workflow (interface/cli.py) ----
    reviewsRun,     \* invocations of daily_review that ran to completion
    reviewPass,     \* a daily_review between its read and its writes
    \* ---- a function called on its own ----
    callArg,        \* the argument of the call
    callRet         \* <<>> before the call, <<the value returned>> after it

schedVars == <<queue, nextId, running, alive, pc, buffer, elapsed,
               shouldProcess, slept, currentProject, tickElapsed, tickLen,
               dispatched, batches, catInput, sumInput, storeInput>>

storeVars == <<eventsTable, txn, clock, kbEntries, nextKbId, reviewSessions,
               summaries, inputs, everReviewed, kbApproveCalled,
               kbDeleteCalled>>

catVars == <<contextWindow, windowBefore, lastCategorized, now,
             summarizeCalls, lastSummary, prevSummary>>

procVars == <<procEvents, eventsStored, summariesStored>>

shellVars == <<commandHistory, lastError, shellOut>>

dbVars == <<stats, statCalls, eventColumns, constructions, found>>

pmVars == <<pidFile, procs, lastCmd, commands, starting>>

cfgVars == <<settings, daemonState, consumerState>>

shadowVars == <<shadowMode, shadowLogs>>

revVars == <<reviewsRun, reviewPass>>

unitVars == <<callArg, callRet>>

extVars == <<pmVars, cfgVars, shadowVars, revVars, unitVars>>

pipeVars == <<catVars, procVars, shellVars, dbVars, extVars>>

vars == <<schedVars, storeVars, pipeVars>>

(***************************************************************************)
(* Helpers.                                                                *)
(***************************************************************************)
Min(a, b) == IF a <= b THEN a ELSE b

Range(s) == {s[i] : i \in 1..Len(s)}

RECURSIVE Flatten(_)
Flatten(ss) == IF ss = <<>> THEN <<>> ELSE Head(ss) \o Flatten(Tail(ss))

\* The capture threads KBDaemon.start launches.
Producers == {"shell_monitor", "file_watcher"}

\* Projects detect_project can answer; CwdProject is its answer for an
\* event without a path (detect_project() on the working directory).
Projects == {"kb", "app"}
CwdProject == "kb"

\* Importances the categorizer gives a captured event (one below and one
\* above min_importance).
Importances == {2, 7}

(***************************************************************************)
(* process_queue: the trigger.                                             *)
(***************************************************************************)
\* The clock only matters through ">= process_interval": it is kept
\* saturated at the interval.
Saturate(t) == Min(t, ProcessInterval)

ShouldProcessTimeOnly(el, n) == el >= ProcessInterval
ShouldProcessAnd(el, n) == el >= ProcessInterval /\ n >= BatchSize
ShouldProcess(el, n) == el >= ProcessInterval \/ n >= BatchSize

(***************************************************************************)
(* _process_events.                                                        *)
(***************************************************************************)
SwitchEvent(from, to) ==
    [id |-> 0, type |-> "project_switch", importance |-> SwitchImportance]

\* The for loop of _process_events over `events`, which it extends with
\* project_switch events while iterating: position i, current project cur.
\* projs[k] is the project detected for the k-th captured event.
RECURSIVE AddProjects(_, _, _, _)
AddProjects(events, i, cur, projs) ==
    IF i > Len(events) THEN [events |-> events, cur |-> cur]
    ELSE LET e == events[i]
             p == IF e.type = "project_switch" THEN CwdProject ELSE projs[i]
             grown == IF cur # "none" /\ cur # p
                      THEN Append(events, SwitchEvent(cur, p))
                      ELSE events
         IN AddProjects(grown, i + 1, p, projs)

\* categorize_batch: one categorized event appended per input event, in
\* order; an event that carries an importance keeps it.
CategorizeBatch(events, imps) ==
    [i \in 1..Len(events) |->
        IF events[i].type = "captured"
        THEN [events[i] EXCEPT !.importance = imps[i]]
        ELSE events[i]]

IsImportant(e) == e.importance >= MinImportance

ImportantEvents(categorized) == SelectSeq(categorized, IsImportant)

Captured(n) == [id |-> n, type |-> "captured", importance |-> 0]

(***************************************************************************)
(* The store: DatabaseManager on one SQLite file.                          *)
(***************************************************************************)
\* ---- Python values, JSON texts and SQL values ----
\* A dict is a record over a fixed set of keys; Absent marks a missing key.
Absent == "<absent>"
PyNone == "None"
PyEmptyDict == "{}"
SqlNull == <<"NULL">>

\* dict.get(key, default)
Get(d, k, default) == IF d[k] = Absent THEN default ELSE d[k]

\* Python truth of `event.get('session')`.
PyTruthy(v) == v \notin {Absent, PyNone, PyEmptyDict}

\* json.dumps / json.loads of a JSON-native value (None, dicts with string
\* keys, strings, numbers, booleans): the text denotes the value it was
\* made from.  A JSON text is never the empty string, so a column is falsy
\* only when it is NULL.
JsonDumps(v) == <<"json", v>>
JsonLoads(t) == t[2]
SqlTruthy(col) == col # SqlNull

\* ---- timestamps: ISO-8601 texts, kept and compared as TEXT ----
Ord(c) == CASE c = "." -> 46 [] c = "Z" -> 90 [] OTHER -> 48
Digit(n) == 48 + n

\* `date -u +%Y-%m-%dT%H:%M:%SZ` (shell and git hooks): UTC, whole seconds.
StampDateU(sec) == <<Digit(sec), Ord("Z")>>
\* datetime.utcnow().isoformat() + 'Z' (file watcher, tests): UTC with the
\* fraction of the second, which isoformat() leaves out when it is zero.
StampUtcIso(sec, frac) ==
    IF frac = 0 THEN <<Digit(sec), Ord("Z")>>
    ELSE <<Digit(sec), Ord("."), Digit(frac), Ord("Z")>>
\* datetime.now().isoformat() (project_switch): local time, no zone suffix.
StampLocalIso(sec, frac) ==
    IF frac = 0 THEN <<Digit(sec + TzOffset)>>
    ELSE <<Digit(sec + TzOffset), Ord("."), Digit(frac)>>

\* SQLite's comparison of two TEXT values (BINARY collation: memcmp).
RECURSIVE TextLeq(_, _)
TextLeq(a, b) ==
    IF a = <<>> THEN TRUE
    ELSE IF b = <<>> THEN FALSE
    ELSE IF Head(a) # Head(b) THEN Head(a) < Head(b)
    ELSE TextLeq(Tail(a), Tail(b))

\* ---- events the pipeline hands to store_event ----
EventDict(ts, type, category, importance, data, keyInfo, session, project, isError) ==
    [timestamp |-> ts, type |-> type, category |-> category,
     importance |-> importance, data |-> data, key_info |-> keyInfo,
     session |-> session, project |-> project, is_error |-> isError]

\* A failed `npm test` as the shell monitor enriches it.
ShellEvent ==
    EventDict(StampDateU(1), "shell_command", "testing", 8,
              "{'command': 'npm', 'args': 'test', 'exit_code': 1}",
              "{'command': 'npm test', 'duration': 0, 'success': False}", Absent,
              "{'name': 'app'}", "True")
\* A created source file, with the session the categorizer attached.
FileEvent ==
    EventDict(StampUtcIso(1, 5), "file_change", "code_created", 5,
              "{'path': 'a.py', 'event_type': 'created'}",
              "{'file': 'a.py', 'file_type': '.py'}",
              "{'type': 'feature_development', 'duration': 0}",
              "{'name': 'app'}", Absent)
\* The project_switch event _process_events adds to a batch.
ProjectSwitchEvent ==
    EventDict(StampLocalIso(0, 5), "project_switch", "context_switch", 5,
              "{'from_project': 'app', 'to_project': 'kb'}", PyEmptyDict,
              Absent, "{'name': 'kb'}", Absent)
\* The event of test_database (test_system.py): schema fields only.
TestEvent ==
    EventDict(StampUtcIso(0, 7), "test_event", "testing", 5,
              "{'test': 'data'}", "{'test': 'info'}", Absent, Absent, Absent)
EventInputs == {ShellEvent, FileEvent, ProjectSwitchEvent, TestEvent}

\* min_importance arguments of get_unreviewed_events (3 is its default).
MinImportanceArgs == {0, 3, 6}

\* ---- table events ----
\* store_event: the row INSERTed for `event`; reviewed = 0, review_date NULL.
EventRow(id, event) ==
    [id |-> id,
     timestamp |-> event.timestamp,
     type |-> event.type,
     category |-> event.category,
     importance |-> event.importance,
     data |-> JsonDumps(Get(event, "data", PyEmptyDict)),
     key_info |-> JsonDumps(Get(event, "key_info", PyEmptyDict)),
     session |-> IF PyTruthy(Get(event, "session", PyNone))
                 THEN JsonDumps(event.session) ELSE SqlNull,
     reviewed |-> 0,
     review_date |-> 0]

\* The dict get_unreviewed_events / get_recent_events build from a row.
RowToEvent(row) ==
    [id |-> row.id,
     timestamp |-> row.timestamp,
     type |-> row.type,
     category |-> row.category,
     importance |-> row.importance,
     data |-> IF SqlTruthy(row.data) THEN JsonLoads(row.data) ELSE PyEmptyDict,
     key_info |-> IF SqlTruthy(row.key_info) THEN JsonLoads(row.key_info)
                  ELSE PyEmptyDict,
     session |-> IF SqlTruthy(row.session) THEN JsonLoads(row.session)
                 ELSE PyNone]

SelectedNoReviewFilter(row, minImportance) == row.importance >= minImportance
\* WHERE reviewed = 0 AND importance >= ?
Selected(row, minImportance) ==
    row.reviewed = 0 /\ row.importance >= minImportance

\* ORDER BY timestamp DESC: rows with equal texts may come in any order.
OrderedByTimestampDesc(rows) ==
    \A i, j \in 1..Len(rows) :
        i < j => TextLeq(rows[j].timestamp, rows[i].timestamp)

\* Every list get_unreviewed_events(minImportance) may return on `table`.
GetUnreviewedEvents(table, minImportance) ==
    LET hits == {i \in 1..Len(table) : Selected(table[i], minImportance)}
        n == Cardinality(hits)
        orders == {f \in [1..n -> hits] : \A a, b \in 1..n : a # b => f[a] # f[b]}
        lists == {[k \in 1..n |-> table[f[k]]] : f \in orders}
    IN {[k \in 1..n |-> RowToEvent(l[k])] : l \in {x \in lists : OrderedByTimestampDesc(x)}}

UpdateReviewedStamped(table, id, date) ==
    [i \in 1..Len(table) |->
        IF table[i].id = id
        THEN [table[i] EXCEPT !.reviewed = 1, !.review_date = date + i]
        ELSE table[i]]
\* The UPDATE without its WHERE clause.
UpdateReviewedEverywhere(table, id, date) ==
    [i \in 1..Len(table) |->
        [table[i] EXCEPT !.reviewed = 1, !.review_date = date]]
\* UPDATE events SET reviewed = 1, review_date = ? WHERE id = ?
UpdateReviewed(table, id, date) ==
    [i \in 1..Len(table) |->
        IF table[i].id = id
        THEN [table[i] EXCEPT !.reviewed = 1, !.review_date = date]
        ELSE table[i]]

RolledBackPartly(committed, work) == work
\* Leaving `with sqlite3.connect(...)` on an exception rolls back: the
\* table is the committed one, not the transaction's working copy.
RolledBack(committed, work) == committed

NoTxn == [open |-> FALSE, ids |-> <<>>, all |-> <<>>, date |-> 0, work |-> <<>>]

\* event_ids arguments of mark_events_reviewed: the review passes the ids
\* of events it has read, each once, in any order.
MarkInputs ==
    UNION {{ids \in [1..n -> 1..Len(eventsTable)] :
                \A a, b \in 1..n : a # b => ids[a] # ids[b]} :
           n \in 0..Len(eventsTable)}

Ids(list) == {list[i].id : i \in 1..Len(list)}

\* ---- table kb_entries ----
\* An entry the review workflow proposes (cli._generate_kb_entries): none
\* of them has an `approved` key, and the store reads nothing else of it.
EntryInputs ==
    {[title |-> "Solved: npm test", category |-> "problem_solved", approved |-> Absent]}

\* entry.get('approved', False), stored in a BOOLEAN column.
ApprovedColumn(entry) == IF Get(entry, "approved", "False") = "True" THEN 1 ELSE 0

KbRow(id, entry) ==
    [id |-> id, title |-> entry.title, category |-> entry.category,
     approved |-> ApprovedColumn(entry)]

RowidMaxPlusOne(rows, counter) ==
    IF rows = <<>> THEN 1 ELSE rows[Len(rows)].id + 1
\* INTEGER PRIMARY KEY AUTOINCREMENT: one more than the largest id ever used.
Autoincrement(rows, counter) == counter

\* SELECT * FROM kb_entries WHERE approved = 0
PendingKbIds == {kbEntries[i].id : i \in {k \in 1..Len(kbEntries) : kbEntries[k].approved = 0}}

KbIds == Ids(kbEntries)

StoreInit ==
    /\ eventsTable = <<>>
    /\ txn = NoTxn
    /\ clock = 1
    /\ kbEntries = <<>>
    /\ nextKbId = 1
    /\ reviewSessions = 0
    /\ summaries = 0
    /\ inputs = <<>>
    /\ everReviewed = {}
    /\ kbApproveCalled = {}
    /\ kbDeleteCalled = {}

\* Every write waits for the file lock the open transaction holds.
Unlocked == ~txn.open

\* store_event(event)
StoreEvent(event) ==
    /\ Unlocked
    /\ eventsTable' = Append(eventsTable, EventRow(Len(eventsTable) + 1, event))
    /\ inputs' = Append(inputs, event)
    /\ UNCHANGED <<txn, clock, kbEntries, nextKbId, reviewSessions, summaries,
                   everReviewed, kbApproveCalled, kbDeleteCalled>>
    /\ UNCHANGED <<schedVars, pipeVars>>

\* mark_events_reviewed(event_ids): connect, take review_date.
MarkBegin(ids) ==
    /\ Unlocked
    /\ txn' = [open |-> TRUE, ids |-> ids, all |-> ids, date |-> clock,
               work |-> eventsTable]
    /\ clock' = clock + 1
    /\ UNCHANGED <<eventsTable, kbEntries, nextKbId, reviewSessions, summaries,
                   inputs, everReviewed, kbApproveCalled,
                   kbDeleteCalled>>
    /\ UNCHANGED <<schedVars, pipeVars>>

\* One pass of `for event_id in event_ids`: the UPDATE, not yet committed.
MarkUpdate ==
    /\ txn.open /\ txn.ids # <<>>
    /\ txn' = [txn EXCEPT !.ids = Tail(txn.ids),
                          !.work = UpdateReviewed(txn.work, Head(txn.ids), txn.date)]
    /\ UNCHANGED <<eventsTable, clock, kbEntries, nextKbId, reviewSessions,
                   summaries, inputs, everReviewed, kbApproveCalled,
                   kbDeleteCalled>>
    /\ UNCHANGED <<schedVars, pipeVars>>

\* conn.commit()
MarkCommit ==
    /\ txn.open /\ txn.ids = <<>>
    /\ eventsTable' = txn.work
    /\ everReviewed' = everReviewed \cup (Range(txn.all) \cap Ids(eventsTable))
    /\ txn' = NoTxn
    /\ UNCHANGED <<clock, kbEntries, nextKbId, reviewSessions, summaries,
                   inputs, kbApproveCalled, kbDeleteCalled>>
    /\ UNCHANGED <<schedVars, pipeVars>>

\* An UPDATE or the commit raises (an id sqlite3 cannot bind, a locked
\* database): the with block rolls the transaction back.
MarkFail ==
    /\ txn.open
    /\ eventsTable' = RolledBack(eventsTable, txn.work)
    /\ txn' = NoTxn
    /\ UNCHANGED <<clock, kbEntries, nextKbId, reviewSessions, summaries,
                   inputs, everReviewed, kbApproveCalled, kbDeleteCalled>>
    /\ UNCHANGED <<schedVars, pipeVars>>

\* create_review_session(stats)
CreateReviewSession ==
    /\ Unlocked
    /\ reviewSessions' = reviewSessions + 1
    /\ UNCHANGED <<eventsTable, txn, clock, kbEntries, nextKbId, summaries, inputs,
                   everReviewed, kbApproveCalled, kbDeleteCalled>>
    /\ UNCHANGED <<schedVars, pipeVars>>

\* store_summary(summary)
StoreSummary ==
    /\ Unlocked
    /\ summaries' = summaries + 1
    /\ UNCHANGED <<eventsTable, txn, clock, kbEntries, nextKbId, reviewSessions,
                   inputs, everReviewed, kbApproveCalled,
                   kbDeleteCalled>>
    /\ UNCHANGED <<schedVars, pipeVars>>

\* create_kb_entry(entry), returning cursor.lastrowid
CreateKbEntry(entry) ==
    /\ Unlocked
    /\ LET id == Autoincrement(kbEntries, nextKbId)
       IN /\ kbEntries' = Append(kbEntries, KbRow(id, entry))
          /\ nextKbId' = id + 1
    /\ UNCHANGED <<eventsTable, txn, clock, reviewSessions, summaries, inputs,
                   everReviewed, kbApproveCalled, kbDeleteCalled>>
    /\ UNCHANGED <<schedVars, pipeVars>>

\* approve_kb_entry(entry_id)
ApproveKbEntry(id) ==
    /\ Unlocked
    /\ kbEntries' = [i \in 1..Len(kbEntries) |->
                        IF kbEntries[i].id = id
                        THEN [kbEntries[i] EXCEPT !.approved = 1]
                        ELSE kbEntries[i]]
    /\ kbApproveCalled' = kbApproveCalled \cup ({id} \cap KbIds)
    /\ UNCHANGED <<eventsTable, txn, clock, nextKbId, reviewSessions, summaries,
                   inputs, everReviewed, kbDeleteCalled>>
    /\ UNCHANGED <<schedVars, pipeVars>>

\* delete_kb_entry(entry_id)
DeleteKbEntry(id) ==
    /\ Unlocked
    /\ kbEntries' = SelectSeq(kbEntries, LAMBDA r : r.id # id)
    /\ kbDeleteCalled' = kbDeleteCalled \cup ({id} \cap KbIds)
    /\ UNCHANGED <<eventsTable, txn, clock, nextKbId, reviewSessions, summaries,
                   inputs, everReviewed, kbApproveCalled>>
    /\ UNCHANGED <<schedVars, pipeVars>>

\* ---- get_statistics ----
\* A file change a daemon configured with min_importance 1 keeps.
MinorFileEvent ==
    EventDict(StampUtcIso(2, 0), "file_change", "documentation", 2,
              "{'path': 'notes.md', 'event_type': 'modified'}",
              "{'file': 'notes.md', 'file_type': '.md'}", Absent,
              "{'name': 'kb'}", Absent)
StatInputs == {ShellEvent, MinorFileEvent}

CountAtFloor(table, floor) ==
    Cardinality({i \in 1..Len(table) : table[i].importance >= floor})
\* SELECT COUNT(*) FROM events WHERE reviewed = 0 AND importance >= 3
CountUnreviewed(table, floor) ==
    Cardinality({i \in 1..Len(table) : Selected(table[i], floor)})

\* SELECT category, COUNT(*) FROM events GROUP BY category, as a dict.
EventsByCategory(table) ==
    [c \in {table[i].category : i \in 1..Len(table)} |->
        Cardinality({i \in 1..Len(table) : table[i].category = c})]

RECURSIVE SumImportance(_)
SumImportance(table) ==
    IF table = <<>> THEN 0 ELSE Head(table).importance + SumImportance(Tail(table))

\* round(avg, 2) if avg else 0, in hundredths: AVG(importance) is NULL on
\* an empty table, and every row of the model has an importance.
AverageImportance(table) ==
    IF table = <<>> \/ SumImportance(table) = 0 THEN 0
    ELSE (2 * Hundredths * SumImportance(table) + Len(table)) \div (2 * Len(table))

\* SELECT COUNT(*) FROM kb_entries WHERE approved = 0
CountPending(kb) == Cardinality({i \in 1..Len(kb) : kb[i].approved = 0})

\* The dict get_statistics returns on the committed content of the file.
Statistics(table, kb, nSummaries, nReviews) ==
    [total_events |-> Len(table),
     unreviewed_events |-> CountUnreviewed(table, StatisticsFloor),
     events_by_category |-> EventsByCategory(table),
     average_importance |-> AverageImportance(table),
     total_summaries |-> nSummaries,
     pending_entries |-> CountPending(kb),
     total_reviews |-> nReviews]

\* get_statistics(): a reader on its own connection; it waits for no
\* writer and sees what is committed.
GetStatistics ==
    /\ stats' = <<Statistics(eventsTable, kbEntries, summaries, reviewSessions)>>
    /\ statCalls' = statCalls + 1
    /\ UNCHANGED <<schedVars, storeVars, catVars, procVars, shellVars,
                   eventColumns, constructions, found, extVars>>

\* ---- the schema of table events ----
\* CREATE TABLE IF NOT EXISTS events (...) of _init_database.  created_at,
\* which no operation reads or writes after the INSERT, is left out, as in
\* EventRow.
BaseColumns ==
    {"id", "timestamp", "type", "category", "importance", "data", "key_info",
     "session"}
\* The columns _upgrade_schema adds.
ReviewColumns == {"reviewed", "review_date"}

\* A row store_event wrote before the table had the review columns.
LegacyRow(id, event) == [c \in BaseColumns |-> EventRow(id, event)[c]]

Table(columns, rows) == [columns |-> columns, rows |-> rows]

InitDatabaseRecreate(db) == Table(BaseColumns, <<>>)
\* _init_database: CREATE TABLE IF NOT EXISTS leaves a table that exists
\* alone, whatever its columns.
InitDatabase(db) ==
    IF db.columns = {} THEN Table(BaseColumns, <<>>) ELSE db

\* ALTER TABLE events ADD COLUMN <column> [DEFAULT <default>], of a column
\* the table does not have: every row reads the default in it.
AddColumn(db, column, default) ==
    Table(db.columns \cup {column},
          [i \in 1..Len(db.rows) |-> (column :> default) @@ db.rows[i]])

\* _upgrade_schema: PRAGMA table_info(events), and the two ALTER TABLEs if
\* 'reviewed' is not among the columns.  0 stands for NULL in review_date,
\* as in EventRow.
UpgradeSchema(db) ==
    IF "reviewed" \notin db.columns
    THEN AddColumn(AddColumn(db, "reviewed", 0), "review_date", 0)
    ELSE db

\* DatabaseManager(db_path): _init_database(), then _upgrade_schema().  It
\* writes, and so waits for the file lock, only on a table it upgrades.
Construct ==
    /\ "reviewed" \notin eventColumns => Unlocked
    /\ LET db == UpgradeSchema(InitDatabase(Table(eventColumns, eventsTable)))
       IN /\ eventColumns' = db.columns
          /\ eventsTable' = db.rows
    /\ constructions' = constructions + 1
    /\ found' = Append(found, Table(eventColumns, eventsTable))
    /\ UNCHANGED <<txn, clock, kbEntries, nextKbId, reviewSessions, summaries,
                   inputs, everReviewed, kbApproveCalled, kbDeleteCalled>>
    /\ UNCHANGED <<schedVars, catVars, procVars, shellVars, stats, statCalls,
                   extVars>>

\* The file after DatabaseManager was constructed on a new path.
DbInit ==
    /\ stats = <<>>
    /\ statCalls = 0
    /\ eventColumns = BaseColumns \cup ReviewColumns
    /\ constructions = 1
    /\ found = <<Table({}, <<>>)>>

\* Events stored in a file of an earlier version.
SchemaInputs == {TestEvent, MinorFileEvent}

\* A file no DatabaseManager of this version has opened: it has no table
\* events, or one without the review columns that holds some rows.
LegacyInit ==
    /\ stats = <<>>
    /\ statCalls = 0
    /\ constructions = 0
    /\ found = <<>>
    /\ txn = NoTxn
    /\ clock = 1
    /\ kbEntries = <<>>
    /\ nextKbId = 1
    /\ reviewSessions = 0
    /\ summaries = 0
    /\ everReviewed = {}
    /\ kbApproveCalled = {}
    /\ kbDeleteCalled = {}
    /\ \/ /\ eventColumns = {}
          /\ inputs = <<>>
          /\ eventsTable = <<>>
       \/ /\ eventColumns = BaseColumns
          /\ \E n \in 0..MaxLegacyRows : inputs \in [1..n -> SchemaInputs]
          /\ eventsTable = [i \in 1..Len(inputs) |-> LegacyRow(i, inputs[i])]

(***************************************************************************)
(* The categorizer: ActivityCategorizer (process/categorizer.py).          *)
(***************************************************************************)
\* An event is a record; a key the dict does not have is Absent (strings),
\* <<>> (importance, otherwise <<n>>) or NoSession.  `words` are the words
\* str(event) contains apart from its category, subcategory and session.
NoSession == [type |-> "none"]

NoKeyInfo == [kind |-> "absent", text |-> "", duration |-> 0, success |-> TRUE]

\* A dict with `type`, `timestamp` (<<t>>, or <<>> without one) and an
\* empty `data`.  `payload` tells whether the dict has the key 'data':
\* event.get('data', {}) reads the fields of an empty one when it has not.
BlankEvent(type, ts) ==
    [type |-> type, timestamp |-> ts, payload |-> TRUE,
     message |-> "", path |-> "",
     command |-> "", exit_code |-> 0, duration |-> 0, words |-> {},
     category |-> Absent, importance |-> <<>>, is_error |-> FALSE,
     fixes_error |-> FALSE, external_commits |-> 0,
     subcategory |-> Absent, key_info |-> NoKeyInfo, session |-> NoSession,
     working_dir |-> "", project |-> Absent]

\* The words of a category name that the substring tests look for.
CategoryWords(category) ==
    CASE category = "testing" -> {"test"}
      [] category = "test_created" -> {"test", "created"}
      [] category = "code_created" -> {"created"}
      [] category = "documentation" -> {"documentation"}
      [] category = "bugfix" -> {"fix"}
      [] OTHER -> {}

\* `word in str(event).lower()`
Mentions(event, word) ==
    \/ word \in event.words
    \/ event.category # Absent /\ word \in CategoryWords(event.category)

\* config/patterns.yml as the categorizer reads it: detection_patterns in
\* file order, and importance_scoring.factors.
DetectionPatterns ==
    <<[category |-> "bugfix", keywords |-> {"fix"}, indicators |-> {}]>>
BugfixWeight == 7
ImportanceFactors == [category \in {"bugfix"} |-> BugfixWeight]

\* _matches_pattern
MatchesPattern(event, patternDef, window) ==
    \/ \E keyword \in patternDef.keywords : Mentions(event, keyword)
    \/ /\ "error_in_output" \in patternDef.indicators
       /\ event.exit_code # 0
    \/ /\ "multiple_test_runs" \in patternDef.indicators
       /\ LET last == SubSeq(window, Len(window) - Min(Len(window), TestRunWindow) + 1,
                             Len(window))
          IN Cardinality({i \in 1..Len(last) : Mentions(last[i], "test")}) >= 2

\* _determine_category: the first pattern that matches, else by type.
DetermineCategoryByTypeOnly(event, window) ==
    IF event.type = "git_commit" THEN "development" ELSE "general"
DetermineCategory(event, window) ==
    LET hits == {i \in 1..Len(DetectionPatterns) :
                    MatchesPattern(event, DetectionPatterns[i], window)}
    IN IF hits # {}
       THEN DetectionPatterns[CHOOSE i \in hits : \A j \in hits : i <= j].category
       ELSE IF event.type = "git_commit" THEN "development"
       ELSE IF event.type = "shell_command"
            THEN (IF event.command \in {"npm", "yarn", "pip", "cargo"}
                  THEN "dependency_management"
                  ELSE IF event.command \in {"pytest", "jest", "test"}
                  THEN "testing"
                  ELSE IF event.command = "docker" THEN "containerization"
                  ELSE "general")
       ELSE "general"

Max(a, b) == IF a >= b THEN a ELSE b

\* _enhance_category
EnhanceCategory(event) ==
    IF event.category = "testing"
    THEN (IF event.is_error
          THEN [event EXCEPT !.subcategory = "test_failure"]
          ELSE IF event.fixes_error
          THEN [event EXCEPT !.subcategory = "test_fix"]
          ELSE event)
    ELSE IF event.category = "git_commit" /\ "WIP" \in event.words
    THEN [event EXCEPT
            !.subcategory = "work_in_progress",
            !.importance = <<Max((IF @ = <<>> THEN DefaultWeight ELSE @[1])
                                 - WipPenalty, 1)>>]
    ELSE event

\* _calculate_importance
CalculateImportance(event) ==
    LET base == IF event.category \in DOMAIN ImportanceFactors
                THEN ImportanceFactors[event.category] ELSE DefaultWeight
        b1 == IF Mentions(event, "breaking") THEN Max(base, BreakingFloor) ELSE base
        b2 == IF event.is_error THEN Min(b1 + ErrorBonus, MaxImportance) ELSE b1
        b3 == IF event.external_commits > 0 THEN Max(b2, ExternalFloor) ELSE b2
        b4 == IF event.duration > LongDuration THEN Min(b3 + 1, MaxImportance) ELSE b3
    IN b4

\* _extract_key_info
ExtractKeyInfo(event) ==
    CASE event.type = "git_commit" ->
            [kind |-> "commit", text |-> event.message, duration |-> 0,
             success |-> TRUE]
      [] event.type = "shell_command" ->
            [kind |-> "command", text |-> event.command,
             duration |-> event.duration, success |-> event.exit_code = 0]
      [] event.type = "file_change" ->
            [kind |-> "file", text |-> event.path, duration |-> 0,
             success |-> TRUE]
      [] OTHER ->
            [kind |-> "none", text |-> "", duration |-> 0, success |-> TRUE]

\* categorize_event
CategorizeEvent(event, window) ==
    LET e1 == IF event.category # Absent
              THEN EnhanceCategory(event)
              ELSE [event EXCEPT !.category = DetermineCategory(event, window)]
        e2 == IF e1.importance = <<>>
              THEN [e1 EXCEPT !.importance = <<CalculateImportance(e1)>>]
              ELSE e1
    IN [e2 EXCEPT !.key_info = ExtractKeyInfo(e2)]


\* context_window[-10:]
RecentAll(window) == window
Recent(window) ==
    SubSeq(window, Len(window) - Min(Len(window), RecentWindow) + 1, Len(window))

\* ---- timestamps as datetime values ----
\* A parsed timestamp: whole seconds and the rank of the fraction of the
\* second (0: none).
Ts(sec, frac) == [sec |-> sec, frac |-> frac]
NotBefore(a, b) == a.sec > b.sec \/ (a.sec = b.sec /\ a.frac >= b.frac)
\* The timestamps of `events` that are present and parse.
Stamps(events) ==
    {events[i].timestamp[1] :
        i \in {k \in 1..Len(events) : events[k].timestamp # <<>>}}
NumStamps(events) ==
    Cardinality({k \in 1..Len(events) : events[k].timestamp # <<>>})
Latest(ts) == CHOOSE t \in ts : \A u \in ts : NotBefore(t, u)
Earliest(ts) == CHOOSE t \in ts : \A u \in ts : NotBefore(u, t)
\* (to - from).seconds: the whole seconds of the difference, days apart.
TimedeltaSeconds(from, to) ==
    (to.sec - from.sec - (IF to.frac < from.frac THEN 1 ELSE 0)) % SecondsPerDay

SessionDurationRoundedUp(events) ==
    LET ts == Stamps(events)
    IN IF NumStamps(events) >= 2
       THEN Latest(ts).sec - Earliest(ts).sec
            + (IF Latest(ts).frac > Earliest(ts).frac THEN 1 ELSE 0)
       ELSE 0
\* _calculate_session_duration
CalculateSessionDuration(events) ==
    LET ts == Stamps(events)
    IN IF NumStamps(events) >= 2
       THEN TimedeltaSeconds(Earliest(ts), Latest(ts))
       ELSE 0

FeatureCategories == {"feature_start", "code_created", "test_created"}

\* _detect_session
DetectSession(window) ==
    LET recent == Recent(window)
        at == 1..Len(recent)
        errors == Cardinality({i \in at : recent[i].is_error})
        fixes == Cardinality({i \in at : recent[i].fixes_error})
        features == Cardinality({i \in at : recent[i].category \in FeatureCategories})
        created == Cardinality({i \in at :
                       /\ recent[i].category # Absent
                       /\ "created" \in CategoryWords(recent[i].category)})
        learning == Cardinality({i \in at : \/ Mentions(recent[i], "documentation")
                                            \/ Mentions(recent[i], "README")})
    IN IF Len(window) < SessionMinEvents THEN NoSession
       ELSE IF errors > 0 /\ fixes > 0
       THEN [type |-> "debugging",
             duration |-> CalculateSessionDuration(recent),
             errors_encountered |-> errors, fixed |-> TRUE]
       ELSE IF features >= FeatureMinEvents
       THEN [type |-> "feature_development",
             duration |-> CalculateSessionDuration(recent),
             files_created |-> created]
       ELSE IF learning >= LearningMinEvents
       THEN [type |-> "learning",
             duration |-> CalculateSessionDuration(recent)]
       ELSE NoSession

\* self.context_window.append(event), bounded to the last 50.
KeepAll(window, event) == Append(window, event)
Keep(window, event) ==
    LET w == Append(window, event)
    IN IF Len(w) > ContextWindowCap THEN Tail(w) ELSE w
ReplaceLast(window, event) == [window EXCEPT ![Len(window)] = event]

\* categorize_batch from context window `window`: the returned list and the
\* window it leaves.  The window holds the dicts themselves, so an entry
\* shows what categorization wrote into its event.
\* The keys of an event that categorize_event, _detect_session and what
\* they call read as event[key]: none, every read is event.get(key, ...).
SubscriptedData == {"data"}
Subscripted == {}

\* The KeyError of a subscripted key the event does not have.
KeyErrorIn(event) == "data" \in Subscripted /\ ~event.payload
Raised == <<[type |-> "KeyError"]>>

RECURSIVE CategorizeBatchIn(_, _, _)
CategorizeBatchIn(window, events, done) ==
    IF events = <<>> THEN [events |-> done, window |-> window]
    ELSE IF KeyErrorIn(Head(events))
    THEN [events |-> Raised, window |-> Keep(window, Head(events))]
    ELSE LET w1 == Keep(window, Head(events))
             e1 == CategorizeEvent(Head(events), w1)
             w2 == ReplaceLast(w1, e1)
             session == DetectSession(w2)
             e2 == IF session # NoSession
                   THEN [e1 EXCEPT !.session = session] ELSE e1
         IN CategorizeBatchIn(ReplaceLast(w2, e2), Tail(events), Append(done, e2))

(***************************************************************************)
(* The summarizer: Summarizer (process/summarizer.py), rule-based.         *)
(***************************************************************************)
\* list[:n]
Take(list, n) == SubSeq(list, 1, Min(Len(list), n))

ImportanceOr(event, default) ==
    IF event.importance = <<>> THEN default ELSE event.importance[1]
CategoryOr(event, default) ==
    IF event.category = Absent THEN default ELSE event.category

\* _get_time_range: {} (here <<>>) when no timestamp parses.
GetTimeRange(events) ==
    LET ts == Stamps(events)
    IN IF ts = {} THEN <<>>
       ELSE <<[start |-> Earliest(ts), end |-> Latest(ts),
               duration_minutes |->
                   TimedeltaSeconds(Earliest(ts), Latest(ts)) \div 60]>>

\* summary['categories']: the events of each category, in batch order.
GroupByCategory(events) ==
    [c \in {CategoryOr(events[i], "general") : i \in 1..Len(events)} |->
        SelectSeq(events, LAMBDA e : CategoryOr(e, "general") = c)]

\* _describe_event
DescribeEvent(event) ==
    CASE event.type = "git_commit" -> <<"Commit", event.key_info.text>>
      [] event.type = "shell_command" -> <<"Command", event.key_info.text>>
      [] event.type = "file_change" -> <<"File", event.key_info.text>>
      [] OTHER -> <<"Category", CategoryOr(event, "")>>

\* f"{session.get('type')}_{session.get('duration')}"
SessionKey(session) == <<session.type, session.duration>>

HighImportance(events) ==
    LET high == SelectSeq(events, LAMBDA e : ImportanceOr(e, 0) >= KeyImportance)
    IN [i \in 1..Len(high) |->
           [description |-> DescribeEvent(high[i]),
            category |-> CategoryOr(high[i], PyNone),
            timestamp |-> high[i].timestamp]]

SessionActivity(event) ==
    [description |-> <<"Session", event.session.type,
                       event.session.duration \div 60>>,
     category |-> "session",
     timestamp |-> event.timestamp]

\* One activity per event that carries a session, whatever its signature.
RECURSIVE EverySessionActivity(_, _)
EverySessionActivity(events, seen) ==
    IF events = <<>> THEN <<>>
    ELSE IF Head(events).session = NoSession
    THEN EverySessionActivity(Tail(events), seen)
    ELSE <<SessionActivity(Head(events))>>
         \o EverySessionActivity(Tail(events), seen)
\* The loop over seen_sessions: the first event of each session signature.
RECURSIVE SessionActivities(_, _)
SessionActivities(events, seen) ==
    IF events = <<>> THEN <<>>
    ELSE IF Head(events).session = NoSession
            \/ SessionKey(Head(events).session) \in seen
    THEN SessionActivities(Tail(events), seen)
    ELSE <<SessionActivity(Head(events))>>
         \o SessionActivities(Tail(events),
                              seen \cup {SessionKey(Head(events).session)})

\* _extract_key_activities
KeyActivitiesUncapped(events) ==
    HighImportance(events) \o SessionActivities(events, {})
ExtractKeyActivities(events) ==
    Take(HighImportance(events) \o SessionActivities(events, {}),
         KeyActivitiesCap)

\* _extract_decisions (no captured event carries `breaking_change`).
RECURSIVE Decisions(_)
Decisions(events) ==
    IF events = <<>> THEN <<>>
    ELSE LET e == Head(events)
         IN (IF e.category = "dependency_add"
             THEN <<<<"Added dependency", e.key_info.text>>>> ELSE <<>>)
            \o (IF e.category = "config_change"
                THEN <<<<"Configuration change", e.key_info.text>>>> ELSE <<>>)
            \o Decisions(Tail(events))
ExtractDecisions(events) == Take(Decisions(events), DecisionsCap)

\* _calculate_time_diff, in minutes; 0 when a timestamp does not parse.
CalculateTimeDiff(e1, e2) ==
    IF e1.timestamp = <<>> \/ e2.timestamp = <<>> THEN 0
    ELSE TimedeltaSeconds(e1.timestamp[1], e2.timestamp[1]) \div 60

\* _extract_problems_solved
RECURSIVE FixedErrors(_, _)
FixedErrors(fixes, errors) ==
    IF fixes = <<>> THEN <<>>
    ELSE LET fix == Head(fixes)
             same == SelectSeq(errors, LAMBDA e : e.command = fix.command)
         IN (IF same = <<>> THEN <<>>
             ELSE <<[problem |-> <<"Error in", fix.command>>,
                     solution |-> "Fixed after debugging",
                     minutes |-> CalculateTimeDiff(Head(same), fix)]>>)
            \o FixedErrors(Tail(fixes), errors)
RECURSIVE DebuggingSessions(_)
DebuggingSessions(events) ==
    IF events = <<>> THEN <<>>
    ELSE LET s == Head(events).session
         IN (IF s.type = "debugging" /\ s.fixed
             THEN <<[problem |-> <<"Debugging session", s.errors_encountered>>,
                     solution |-> "Resolved",
                     minutes |-> s.duration \div 60]>>
             ELSE <<>>)
            \o DebuggingSessions(Tail(events))
ExtractProblemsSolved(events) ==
    Take(FixedErrors(SelectSeq(events, LAMBDA e : e.fixes_error),
                     SelectSeq(events, LAMBDA e : e.is_error))
         \o DebuggingSessions(events), ProblemsCap)

\* _extract_external_changes (no captured event carries `external_changes`).
ExtractExternalChanges(events) ==
    LET ext == SelectSeq(events, LAMBDA e : e.external_commits > 0)
    IN [i \in 1..Len(ext) |->
           [type |-> "commits_merged", count |-> ext[i].external_commits]]

\* _extract_learning
RECURSIVE Learning(_)
Learning(events) ==
    IF events = <<>> THEN <<>>
    ELSE LET e == Head(events)
         IN (IF e.category = "documentation"
             THEN <<<<"Reviewed documentation", e.key_info.text>>>> ELSE <<>>)
            \o (IF e.session.type = "learning"
                THEN <<<<"Learning session", e.session.duration \div 60>>>>
                ELSE <<>>)
            \o Learning(Tail(events))
ExtractLearning(events) == Take(Learning(events), LearningCap)

RECURSIVE SumCounts(_)
SumCounts(external) ==
    IF external = <<>> THEN 0 ELSE Head(external).count + SumCounts(Tail(external))

\* _generate_text_summary with the creation time among its lines.
GenerateTextSummaryStamped(summary) ==
    <<<<"Created", summary.timestamp>>>>
\* _generate_text_summary: the lines it joins, or the fallback sentence.
GenerateTextSummary(summary) ==
    LET period == IF summary.time_range # <<>>
                     /\ summary.time_range[1].duration_minutes # 0
                  THEN <<<<"Activity period", summary.time_range[1].duration_minutes>>>>
                  ELSE <<>>
        acts == summary.key_activities
        actLines == IF acts # <<>>
                    THEN <<<<"Key activities", Len(acts)>>>>
                         \o [i \in 1..Min(Len(acts), TextActivities) |->
                                acts[i].description]
                    ELSE <<>>
        decs == summary.decisions
        decLines == IF decs # <<>>
                    THEN <<<<"Decisions made", Len(decs)>>>>
                         \o Take(decs, TextDecisions)
                    ELSE <<>>
        probs == summary.problems_solved
        probLines == IF probs # <<>>
                     THEN <<<<"Problems solved", Len(probs)>>>>
                          \o [i \in 1..Min(Len(probs), TextProblems) |->
                                 <<probs[i].problem, probs[i].solution>>]
                     ELSE <<>>
        extLines == IF summary.external_changes # <<>>
                    THEN <<<<"Integrated", SumCounts(summary.external_changes)>>>>
                    ELSE <<>>
        learnLines == IF summary.learning # <<>>
                      THEN <<<<"Learning moments", Len(summary.learning)>>>>
                           \o Take(summary.learning, TextLearning)
                      ELSE <<>>
        lines == period \o actLines \o decLines \o probLines \o extLines
                 \o learnLines
    IN IF lines # <<>> THEN lines ELSE <<<<"No summary available", 0>>>>

\* _rule_based_summarize at time `at` (datetime.utcnow()).
RuleBasedSummarize(events, at) ==
    LET summary == [timestamp |-> at,
                    event_count |-> Len(events),
                    time_range |-> GetTimeRange(events),
                    categories |-> GroupByCategory(events),
                    key_activities |-> ExtractKeyActivities(events),
                    decisions |-> ExtractDecisions(events),
                    problems_solved |-> ExtractProblemsSolved(events),
                    external_changes |-> ExtractExternalChanges(events),
                    learning |-> ExtractLearning(events)]
    IN [text |-> GenerateTextSummary(summary)] @@ summary

\* ---- events handed to categorize_batch ----
\* test_categorizer's commit (test_system.py): type, timestamp and
\* data.message only.
GitFixEvent ==
    [BlankEvent("git_commit", <<Ts(0, 0)>>) EXCEPT
        !.message = "fix: resolve login bug", !.words = {"fix", "login", "bug"}]
\* `npm test` failing, then passing, enriched as a failure and as its fix.
TestFailedEvent ==
    [BlankEvent("shell_command", <<Ts(1, 0)>>) EXCEPT
        !.command = "npm", !.exit_code = 1, !.words = {"npm", "test"},
        !.category = "testing", !.importance = <<8>>, !.is_error = TRUE]
TestFixedEvent ==
    [BlankEvent("shell_command", <<Ts(1, 5)>>) EXCEPT
        !.command = "npm", !.words = {"npm", "test"},
        !.category = "testing", !.importance = <<8>>, !.fixes_error = TRUE]
\* Files the file watcher saw created.
CodeCreatedEvent ==
    [BlankEvent("file_change", <<Ts(1, 0)>>) EXCEPT
        !.path = "app.py", !.words = {"app.py", "created"},
        !.category = "code_created", !.importance = <<5>>]
TestCreatedEvent ==
    [BlankEvent("file_change", <<Ts(1, 5)>>) EXCEPT
        !.path = "test_app.py", !.words = {"test_app.py", "test", "created"},
        !.category = "test_created", !.importance = <<6>>]
\* A work-in-progress commit that arrives with its category.
WipCommitEvent ==
    [BlankEvent("git_commit", <<Ts(2, 0)>>) EXCEPT
        !.message = "WIP parser", !.words = {"WIP", "parser"},
        !.category = "git_commit", !.importance = <<7>>]
\* An event a source scored above the scale, without a timestamp.
OverratedEvent ==
    [BlankEvent("pattern_detected", <<>>) EXCEPT
        !.category = "refactoring_session", !.importance = <<11>>]
CatInputs ==
    {GitFixEvent, TestFailedEvent, TestFixedEvent, CodeCreatedEvent,
     TestCreatedEvent, WipCommitEvent, OverratedEvent}
\* The events a summarized batch is made of.
SumInputs == {TestFailedEvent, TestFixedEvent, CodeCreatedEvent, GitFixEvent}

\* The batches of at most n events of `from`.
Batches(from, n) == UNION {[1..k -> from] : k \in 1..n}

NoSummary == [events |-> <<>>, at |-> 0, result |-> <<>>]

CatInit ==
    /\ contextWindow = <<>>
    /\ windowBefore = <<>>
    /\ lastCategorized = <<>>
    /\ now = 0
    /\ summarizeCalls = 0
    /\ lastSummary = NoSummary
    /\ prevSummary = NoSummary

\* categorizer.categorize_batch(events)
Categorize(events) ==
    LET out == CategorizeBatchIn(contextWindow, events, <<>>)
    IN /\ windowBefore' = contextWindow
       /\ contextWindow' = out.window
       /\ lastCategorized' = out.events
       /\ UNCHANGED <<now, summarizeCalls, lastSummary, prevSummary>>
       /\ UNCHANGED <<schedVars, storeVars, procVars, shellVars, dbVars, extVars>>

\* summarizer.summarize(events) on the list categorize_batch returned;
\* datetime.utcnow() reads `at`, no earlier than the last reading.
Summarize ==
    /\ lastCategorized # <<>>
    /\ \E at \in now..(now + 1) :
          /\ now' = at
          /\ lastSummary' = [events |-> lastCategorized, at |-> at,
                             result |-> <<RuleBasedSummarize(lastCategorized, at)>>]
    /\ prevSummary' = lastSummary
    /\ summarizeCalls' = summarizeCalls + 1
    /\ UNCHANGED <<contextWindow, windowBefore, lastCategorized>>
    /\ UNCHANGED <<schedVars, storeVars, procVars, shellVars, dbVars, extVars>>

(***************************************************************************)
(* The shell monitor: ShellMonitor._process_command                        *)
(* (capture/shell_monitor.py).                                             *)
(***************************************************************************)
\* A shell_command event as the hook writes it; `words` are the words of
\* f"{command} {args}".
ShellCommand(command, args, exitCode, duration) ==
    [command |-> command, args |-> args, words |-> {command} \cup args,
     exit_code |-> exitCode, duration |-> duration,
     category |-> Absent, importance |-> <<>>, patterns |-> {},
     is_error |-> FALSE, fixes_error |-> FALSE]

\* config['capture'].get('track_commands', []): none configured.
TrackCommands == {}

\* _is_important_command
IsImportantCommand(event) ==
    \/ event.words \cap {"install", "add", "remove", "update", "upgrade",
                         "build", "test", "deploy", "push", "pull", "merge",
                         "rebase", "commit"} # {}
    \/ event.duration > ImportantDuration

\* _categorize_command
CategorizeCommand(event) ==
    IF event.command \in {"npm", "yarn", "pnpm", "pip", "cargo"}
    THEN (IF event.args \cap {"install", "add"} # {} THEN "dependency_add"
          ELSE IF event.args \cap {"remove", "uninstall"} # {}
          THEN "dependency_remove"
          ELSE IF "test" \in event.args THEN "testing"
          ELSE IF "build" \in event.args THEN "building"
          ELSE "shell_command")
    ELSE IF event.command \in {"pytest", "jest", "mocha"} \/ "test" \in event.words
    THEN "testing"
    ELSE IF event.command = "git" THEN "git"
    ELSE "shell_command"

\* _calculate_command_importance
CalculateCommandImportance(event) ==
    LET high == event.words \cap {"deploy", "apply", "push", "merge", "install"} # {}
        medium == event.words \cap {"test", "build", "commit"} # {}
        base == IF medium THEN MediumCommandImportance
                ELSE IF high THEN HighCommandImportance
                ELSE BaseCommandImportance
    IN Min(base + (IF event.duration > SlowCommand THEN 1 ELSE 0)
                + (IF event.duration > SlowerCommand THEN 1 ELSE 0),
           MaxImportance)

\* _detect_patterns over the history, whose last entry is the command
\* being processed, not yet categorized.
DetectPatterns(history) ==
    LET recent == SubSeq(history, Len(history) - Min(Len(history), RecentCommands) + 1,
                         Len(history))
        tests == SelectSeq(recent, LAMBDA c : c.category = "testing")
        failures == SelectSeq(tests, LAMBDA c : c.exit_code # 0)
        deps == SelectSeq(recent, LAMBDA c : c.category \in {"dependency_add",
                                                              "dependency_remove"})
        builds == SelectSeq(recent, LAMBDA c : c.category = "building")
    IN IF Len(history) < PatternMinHistory THEN {}
       ELSE (IF Len(tests) >= DebuggingMinTests /\ failures # <<>>
             THEN {"debugging_session"} ELSE {})
            \cup (IF Len(deps) >= DependencyMinCommands
                  THEN {"dependency_management"} ELSE {})
            \cup (IF builds # <<>> /\ tests # <<>>
                  THEN {"build_test_cycle"} ELSE {})

\* _is_error_fix, with self.last_error = last
IsErrorFix(event, last) ==
    /\ last # <<>>
    /\ event.command = last[1].command
    /\ event.exit_code = 0

\* The event _process_command returns for a tracked command: enriched, and
\* within the failure branch marked as an error and tested for a fix
\* against self.last_error, which by then is the event itself.
Enriched(event, history) ==
    LET e1 == [event EXCEPT !.category = CategorizeCommand(event),
                            !.importance = <<CalculateCommandImportance(event)>>,
                            !.patterns = DetectPatterns(history)]
        e2 == [e1 EXCEPT !.is_error = TRUE,
                         !.importance = <<Min(e1.importance[1] + FailureBonus,
                                              MaxImportance)>>]
        e3 == [e2 EXCEPT !.fixes_error = TRUE, !.importance = <<FixImportance>>]
    IN IF event.exit_code = 0 THEN e1
       ELSE IF IsErrorFix(e2, <<e2>>) THEN e3
       ELSE e2

\* The commands the shell hook reports.
ShellInputs ==
    {ShellCommand("npm", {"test"}, 1, 2),
     ShellCommand("npm", {"test"}, 0, 2),
     ShellCommand("npm", {"install"}, 0, 40),
     ShellCommand("npm", {"run", "build"}, 1, 70),
     ShellCommand("ls", {}, 0, 0)}

ShellInit ==
    /\ commandHistory = <<>>
    /\ lastError = <<>>
    /\ shellOut = <<>>

\* _process_command(event)
ProcessCommand(event) ==
    IF event.command \notin TrackCommands /\ ~IsImportantCommand(event)
    THEN /\ shellOut' = Append(shellOut, <<>>)
         /\ UNCHANGED <<commandHistory, lastError>>
         /\ UNCHANGED <<schedVars, storeVars, catVars, procVars, dbVars, extVars>>
    ELSE LET appended == Append(commandHistory, event)
             history == IF Len(appended) > HistoryCap THEN Tail(appended)
                        ELSE appended
             out == Enriched(event, history)
         IN /\ commandHistory' = [history EXCEPT ![Len(history)] = out]
            /\ lastError' = IF event.exit_code # 0 THEN <<out>> ELSE lastError
            /\ shellOut' = Append(shellOut, <<out>>)
            /\ UNCHANGED <<schedVars, storeVars, catVars, procVars, dbVars, extVars>>

(***************************************************************************)
(* _process_events (kb_daemon.py) on the categorizer, the summarizer and   *)
(* the store.                                                              *)
(***************************************************************************)
\* project_detector.detect_project(path): the project a path lies in.
ProjectAt(path) == IF path \in {"/dev/app", "/dev/app/app.py"} THEN "app" ELSE "kb"
\* The project of an event: by data.working_dir, else data.path, else the
\* daemon's working directory.
DetectProject(event) ==
    IF event.working_dir # "" THEN ProjectAt(event.working_dir)
    ELSE IF event.path # "" THEN ProjectAt(event.path)
    ELSE CwdProject

\* track_project_switch(old, new), taken at local time `at`.
TrackProjectSwitch(from, to, at) ==
    [BlankEvent("project_switch", <<Ts(at + TzOffset, 0)>>) EXCEPT
        !.category = "context_switch", !.importance = <<SwitchImportance>>,
        !.words = {from, to}]

\* The for loop of _process_events: position i, current project cur; each
\* event gets its project, and the list grows while it is iterated.
RECURSIVE TagProjects(_, _, _, _)
TagProjects(events, i, cur, at) ==
    IF i > Len(events) THEN [events |-> events, cur |-> cur]
    ELSE LET p == DetectProject(events[i])
             tagged == [events EXCEPT ![i].project = p]
             grown == IF cur # "none" /\ cur # p
                      THEN Append(tagged, TrackProjectSwitch(cur, p, at))
                      ELSE tagged
         IN TagProjects(grown, i + 1, p, at)

\* e.get('importance', 0) >= min_importance
ImportantOf(events) ==
    SelectSeq(events, LAMBDA e : ImportanceOr(e, 0) >= MinImportance)

SummarizesFrom(n) == n >= SummarizeAbove
\* len(important_events) > 5
Summarizes(n) == n > SummarizeAbove

\* store_summary(summary): the row it inserts.
SummaryRow(summary) ==
    [timestamp |-> summary.timestamp,
     event_count |-> summary.event_count,
     time_range |-> JsonDumps(summary.time_range),
     text |-> summary.text,
     full_data |-> JsonDumps(summary)]

\* The shell's `npm test` failing in another project's directory, and an
\* event below the importance floor.
ShellInAppEvent == [TestFailedEvent EXCEPT !.working_dir = "/dev/app"]
MinorEvent ==
    [BlankEvent("file_change", <<Ts(1, 0)>>) EXCEPT
        !.path = "notes.txt", !.words = {"notes.txt", "modified"},
        !.category = "file_modified", !.importance = <<2>>]
ProcInputs == {TestFailedEvent, ShellInAppEvent, MinorEvent}

ProcInit ==
    /\ procEvents = 0
    /\ eventsStored = <<>>
    /\ summariesStored = <<>>

\* _log_shadow_mode_capture(events): json.dump of the list to a new file.
LogShadowModeCapture(events) == events

\* _process_events(events); datetime.now() and utcnow() read `now`.  In
\* shadow mode the list it has stored is then written to the shadow log.
ProcessEvents(events) ==
    LET tagged == TagProjects(events, 1, currentProject, now)
        out == CategorizeBatchIn(contextWindow, tagged.events, <<>>)
        important == ImportantOf(out.events)
    IN /\ currentProject' = tagged.cur
       /\ windowBefore' = contextWindow
       /\ contextWindow' = out.window
       /\ lastCategorized' = out.events
       /\ procEvents' = procEvents + Len(events)
       /\ IF important = <<>>
          THEN eventsStored' = <<>> /\ summariesStored' = <<>>
          ELSE IF Summarizes(Len(important))
          THEN /\ summariesStored' =
                    <<SummaryRow(RuleBasedSummarize(important, now))>>
               /\ eventsStored' = <<>>
          ELSE /\ eventsStored' = important
               /\ summariesStored' = <<>>
       /\ shadowLogs' = IF important # <<>> /\ shadowMode
                        THEN Append(shadowLogs, LogShadowModeCapture(important))
                        ELSE shadowLogs
       /\ UNCHANGED <<now, summarizeCalls, lastSummary, prevSummary>>
       /\ UNCHANGED <<queue, nextId, running, alive, pc, buffer, elapsed,
                      shouldProcess, slept, tickElapsed, tickLen,
                      dispatched, batches, catInput, sumInput, storeInput>>
       /\ UNCHANGED <<storeVars, shellVars, dbVars, pmVars, cfgVars, shadowMode,
                      revVars, unitVars>>

(***************************************************************************)
(* The PID file: ProcessManager (process/process_manager.py) and the       *)
(* commands of main (kb_daemon.py).                                        *)
(***************************************************************************)
Pids == 1..MaxPids

\* What psutil finds under a pid: nothing ("free"), the KB daemon, or an
\* unrelated program: one whose command line does not hold 'kb_daemon.py'
\* ("other"), one whose command line does ("lookalike": an editor or a
\* pager on the file), and one whose command line psutil may not read
\* ("hidden": AccessDenied).
Unrelated == {"other", "lookalike", "hidden"}
Kinds == {"free", "daemon"} \cup Unrelated

FreePids == {p \in Pids : procs[p] = "free"}

\* save_pid(pid)
SavePid(pid) == <<pid>>

\* is_running(): its result, and the PID file as it leaves it.
IsRunning(file, ps) ==
    IF file = <<>>
    THEN [running |-> FALSE, file |-> file]
    ELSE CASE ps[file[1]] = "free" -> [running |-> FALSE, file |-> <<>>]
           [] ps[file[1]] \in {"daemon", "lookalike"} ->
                [running |-> TRUE, file |-> file]
           [] ps[file[1]] = "other" -> [running |-> FALSE, file |-> <<>>]
           [] ps[file[1]] = "hidden" -> [running |-> TRUE, file |-> file]

CleanupAlways(file, caller) == <<>>
\* cleanup() in the process `caller`: the file is removed if it holds the
\* caller's pid.
Cleanup(file, caller) ==
    IF file # <<>> /\ file[1] = caller THEN <<>> ELSE file

\* What a command leaves in lastCmd.  exit is <<>> while the command's
\* process runs on, result what the ProcessManager call returned.
Outcome(command, caller, exit, result, before) ==
    [command |-> command, caller |-> caller, exit |-> exit,
     result |-> result, fileBefore |-> before]

PmInit ==
    /\ pidFile = <<>>
    /\ procs = [p \in Pids |-> "free"]
    /\ lastCmd = Outcome("none", 0, <<>>, FALSE, <<>>)
    /\ commands = 0
    /\ starting = 0

OutsidePm ==
    UNCHANGED <<schedVars, storeVars, catVars, procVars, shellVars, dbVars,
                cfgVars, shadowVars, revVars, unitVars>>

\* What a command that runs with no `start` beside it leaves alone.
PmUnchanged == OutsidePm /\ UNCHANGED starting

\* `kb_daemon.py start`: refuse if is_running(); else Popen the child
\* `start --foreground`, save its pid, and after 2 s ask is_running()
\* again.  `ok` is whether the child's KBDaemon() came up.
StartBackground(child, ok) ==
    /\ IsRunning(pidFile, procs).running \/ procs[child] = "free"
    /\ LET r == IsRunning(pidFile, procs)
       IN IF r.running
          THEN /\ pidFile' = r.file
               /\ procs' = procs
               /\ lastCmd' = Outcome("start", 0, <<1>>, TRUE, pidFile)
          ELSE IF ok
          THEN /\ procs' = [procs EXCEPT ![child] = "daemon"]
               /\ pidFile' = SavePid(child)
               /\ lastCmd' = Outcome("start", child, <<0>>, FALSE, pidFile)
          ELSE /\ procs' = procs
               /\ pidFile' = <<>>
               /\ lastCmd' = Outcome("start", child, <<1>>, FALSE, pidFile)
    /\ commands' = commands + 1
    /\ PmUnchanged

\* `kb_daemon.py start --foreground` in process p: KBDaemon(), then
\* start(), which saves the pid and runs until it is stopped.
StartForeground(p) ==
    /\ procs[p] = "free"
    /\ procs' = [procs EXCEPT ![p] = "daemon"]
    /\ pidFile' = SavePid(p)
    /\ lastCmd' = Outcome("start_foreground", p, <<>>, FALSE, pidFile)
    /\ commands' = commands + 1
    /\ PmUnchanged

\* The first half of `kb_daemon.py start`, up to the Popen: is_running(),
\* and exit(1) if it says yes.
StartCheck ==
    /\ LET r == IsRunning(pidFile, procs)
       IN /\ pidFile' = r.file
          /\ IF r.running
             THEN /\ lastCmd' = Outcome("start", 0, <<1>>, TRUE, pidFile)
                  /\ commands' = commands + 1
                  /\ starting' = starting
             ELSE /\ starting' = starting + 1
                  /\ UNCHANGED <<lastCmd, commands>>
    /\ procs' = procs
    /\ OutsidePm

\* The second half: Popen of the child `start --foreground`, save_pid of
\* its pid, and after 2 s is_running() again.
StartSpawn(child, ok) ==
    /\ starting > 0
    /\ procs[child] = "free"
    /\ IF ok
       THEN /\ procs' = [procs EXCEPT ![child] = "daemon"]
            /\ pidFile' = SavePid(child)
            /\ lastCmd' = Outcome("start", child, <<0>>, FALSE, pidFile)
       ELSE /\ procs' = procs
            /\ pidFile' = <<>>
            /\ lastCmd' = Outcome("start", child, <<1>>, FALSE, pidFile)
    /\ commands' = commands + 1
    /\ starting' = starting - 1
    /\ OutsidePm

\* `kb_daemon.py stop`: stop_daemon(), whose result main drops.  A daemon
\* that gets SIGTERM runs stop() and with it cleanup() before it exits,
\* unless it does not end in 5 s (`graceful` is false) and is killed; the
\* unlink after the wait raises when the file is gone.
StopCommand(graceful) ==
    /\ LET r == IsRunning(pidFile, procs)
           pid == pidFile[1]
       IN IF ~r.running
          THEN /\ pidFile' = <<>>
               /\ procs' = procs
               /\ lastCmd' = Outcome("stop", 0, <<0>>, FALSE, pidFile)
          ELSE IF procs[pid] = "hidden"
          THEN /\ pidFile' = pidFile
               /\ procs' = procs
               /\ lastCmd' = Outcome("stop", 0, <<0>>, FALSE, pidFile)
          ELSE /\ procs' = [procs EXCEPT ![pid] = "free"]
               /\ pidFile' = <<>>
               /\ lastCmd' = Outcome("stop", 0, <<0>>,
                                     ~(procs[pid] = "daemon" /\ graceful), pidFile)
    /\ commands' = commands + 1
    /\ PmUnchanged

\* `kb_daemon.py status`: get_status()['running'].
StatusCommand ==
    /\ LET r == IsRunning(pidFile, procs)
       IN /\ pidFile' = r.file
          /\ lastCmd' = Outcome("status", 0, <<0>>, r.running, pidFile)
    /\ procs' = procs
    /\ commands' = commands + 1
    /\ PmUnchanged

\* SIGTERM or SIGINT reaches the daemon p: _signal_handler calls stop(),
\* which calls cleanup(), and sys.exit(0).
DaemonStop(p) ==
    /\ procs[p] = "daemon"
    /\ pidFile' = Cleanup(pidFile, p)
    /\ procs' = [procs EXCEPT ![p] = "free"]
    /\ lastCmd' = Outcome("cleanup", p, <<0>>, FALSE, pidFile)
    /\ commands' = commands + 1
    /\ PmUnchanged

\* The daemon p is killed (SIGKILL, power loss): no handler runs.
DaemonKilled(p) ==
    /\ procs[p] = "daemon"
    /\ procs' = [procs EXCEPT ![p] = "free"]
    /\ UNCHANGED <<pidFile, lastCmd, commands>>
    /\ PmUnchanged

\* The host starts an unrelated program under a free pid, or ends one.
ProgramStarts(p, kind) ==
    /\ procs[p] = "free"
    /\ procs' = [procs EXCEPT ![p] = kind]
    /\ UNCHANGED <<pidFile, lastCmd, commands>>
    /\ PmUnchanged

ProgramEnds(p) ==
    /\ procs[p] \in Unrelated
    /\ procs' = [procs EXCEPT ![p] = "free"]
    /\ UNCHANGED <<pidFile, lastCmd, commands>>
    /\ PmUnchanged

(***************************************************************************)
(* The review workflow: CLI.daily_review (interface/cli.py) on the store.  *)
(***************************************************************************)
\* _extract_key_activities on the dicts the store returns: the events of
\* importance >= 7, then one activity per distinct session, first seen
\* first; activities[:10].
RECURSIVE ReviewSessionActivities(_, _)
ReviewSessionActivities(events, seen) ==
    IF events = <<>> THEN <<>>
    ELSE LET e == Head(events)
         IN IF PyTruthy(e.session) /\ e.session \notin seen
            THEN <<[title |-> e.session, category |-> "session",
                    approved |-> Absent]>>
                 \o ReviewSessionActivities(Tail(events), seen \cup {e.session})
            ELSE ReviewSessionActivities(Tail(events), seen)

ReviewKeyActivities(events) ==
    LET high == SelectSeq(events, LAMBDA e : e.importance >= KeyImportance)
        activities ==
            [i \in 1..Len(high) |->
                [title |-> high[i].key_info, category |-> high[i].category,
                 approved |-> Absent]]
            \o ReviewSessionActivities(events, {})
    IN Take(activities, KeyActivitiesCap)

\* _extract_decisions on the dicts the store returns; decisions[:5].
ReviewDecisions(events) ==
    LET decided == SelectSeq(events, LAMBDA e :
                       e.category \in {"dependency_add", "config_change"})
    IN Take([i \in 1..Len(decided) |->
                [title |-> decided[i].key_info, category |-> "decision",
                 approved |-> Absent]], DecisionsCap)

\* _generate_kb_entries(events, summary).  The dicts the store returns
\* carry no is_error, fixes_error or external_commits, so the summary has
\* no problems_solved and no external_changes.
GenerateKbEntries(events) ==
    Take(ReviewKeyActivities(events), ReviewActivities) \o ReviewDecisions(events)

\* The answers to "[A]pprove, [E]dit, [S]kip, [Q]uit?", one per entry.
Answers == {"a", "e", "s", "q"}

\* The entries answered before the first 'q', or all of them.
Answered(answers) ==
    IF \E i \in 1..Len(answers) : answers[i] = "q"
    THEN (CHOOSE i \in 1..Len(answers) :
              answers[i] = "q" /\ \A j \in 1..(i - 1) : answers[j] # "q") - 1
    ELSE Len(answers)

\* _review_entry on each entry in turn: 'a' and 'e' create the entry and
\* approve it.
RECURSIVE ReviewEntries(_, _, _, _)
ReviewEntries(kb, counter, entries, answers) ==
    IF entries = <<>> \/ answers = <<>> \/ Head(answers) = "q"
    THEN [kb |-> kb, counter |-> counter]
    ELSE IF Head(answers) = "s"
    THEN ReviewEntries(kb, counter, Tail(entries), Tail(answers))
    ELSE ReviewEntries(
             Append(kb, [KbRow(Autoincrement(kb, counter), Head(entries))
                            EXCEPT !.approved = 1]),
             Autoincrement(kb, counter) + 1, Tail(entries), Tail(answers))

\* mark_events_reviewed(event_ids), from begin to commit.
RECURSIVE MarkEventsReviewed(_, _, _)
MarkEventsReviewed(table, ids, date) ==
    IF ids = <<>> THEN table
    ELSE MarkEventsReviewed(UpdateReviewed(table, Head(ids), date), Tail(ids), date)

EventIds(events) == [i \in 1..Len(events) |-> events[i].id]

\* The ids of the rows of `table` that get_unreviewed_events would return.
IdsUnreviewedNow(events, table) ==
    EventIds(SelectSeq(table, LAMBDA row : Selected(row, ReviewMinImportance)))
\* event_ids = [e['id'] for e in events], the events read at the start.
IdsToMark(events, table) == EventIds(events)

\* Whether the answers end the process: 'q' is sys.exit(0), which leaves
\* daily_review at once, not a return to its loop.
QuitReturns(answers) == FALSE
Quits(answers) == Answered(answers) < Len(answers)

\* No daily_review is between its read and its writes.  After one, `events`
\* and `rows` keep what it had read and the rows the table had when it
\* ended, and `ended` how it ended.
NoPass == [open |-> FALSE, events |-> <<>>, rows |-> 0, ended |-> "none"]

\* daily_review() from the review loop on, with the given answers, on the
\* events it has read.  It returns early when there is no unreviewed event
\* and when no entry is suggested; 'q' leaves it by sys.exit(0) before the
\* events are marked.
ReviewBody(events, answers) ==
    /\ LET entries == GenerateKbEntries(events)
           done == ReviewEntries(kbEntries, nextKbId, entries, answers)
           quit == Quits(answers)
           marks == events # <<>> /\ ~quit
           ids == IdsToMark(events, eventsTable)
       IN /\ kbEntries' = done.kb
          /\ nextKbId' = done.counter
          /\ kbApproveCalled' = kbApproveCalled \cup (nextKbId..(done.counter - 1))
          /\ eventsTable' = IF marks
                            THEN MarkEventsReviewed(eventsTable, ids, clock)
                            ELSE eventsTable
          /\ everReviewed' = IF marks THEN everReviewed \cup Range(ids)
                             ELSE everReviewed
          /\ clock' = IF marks THEN clock + 1 ELSE clock
          /\ reviewSessions' = IF marks /\ entries # <<>>
                               THEN reviewSessions + 1 ELSE reviewSessions
          /\ reviewsRun' = IF quit THEN reviewsRun ELSE reviewsRun + 1
    /\ UNCHANGED <<txn, summaries, inputs, kbDeleteCalled>>
    /\ UNCHANGED <<schedVars, catVars, procVars, shellVars, dbVars, pmVars,
                   cfgVars, shadowVars, unitVars>>

\* daily_review() with nothing else running in between.
DailyReview(events, answers) ==
    /\ Unlocked
    /\ events \in GetUnreviewedEvents(eventsTable, ReviewMinImportance)
    /\ Len(answers) = Len(GenerateKbEntries(events))
    /\ ReviewBody(events, answers)
    /\ UNCHANGED reviewPass

\* daily_review() up to its prompt: get_unreviewed_events and, with events
\* to show, the summary and the suggested entries.  With none it returns.
ReviewRead(events) ==
    /\ ~reviewPass.open /\ Unlocked
    /\ events \in GetUnreviewedEvents(eventsTable, ReviewMinImportance)
    /\ IF events = <<>>
       THEN /\ reviewsRun' = reviewsRun + 1
            /\ reviewPass' = [NoPass EXCEPT !.rows = Len(eventsTable),
                                            !.ended = "empty"]
       ELSE /\ reviewsRun' = reviewsRun
            /\ reviewPass' = [NoPass EXCEPT !.open = TRUE, !.events = events]
    /\ UNCHANGED <<storeVars, schedVars, catVars, procVars, shellVars, dbVars,
                   pmVars, cfgVars, shadowVars, unitVars>>

\* The rest of that daily_review(), once the user has answered.
ReviewFinish(answers) ==
    /\ reviewPass.open /\ Unlocked
    /\ Len(answers) = Len(GenerateKbEntries(reviewPass.events))
    /\ ReviewBody(reviewPass.events, answers)
    /\ reviewPass' = [reviewPass EXCEPT
                        !.open = FALSE, !.rows = Len(eventsTable),
                        !.ended = IF Answered(answers) < Len(answers)
                                  THEN "quit" ELSE "marked"]

(***************************************************************************)
(* Start-up on a settings file: KBDaemon.__init__, start and the first     *)
(* passes of process_queue (kb_daemon.py).                                 *)
(***************************************************************************)
\* The sections of settings.yml the daemon reads, and the two batching
\* thresholds with the section each is in.
Sections == {"daemon", "processing", "git", "capture"}
Thresholds == {"process_interval", "batch_size"}
\* The keys process_queue and _process_events look up without a default.
Keys == Thresholds \cup {"min_importance"}
SectionOf(key) == IF key = "process_interval" THEN "daemon" ELSE "processing"

\* A settings file: missing, not YAML, YAML that is not a mapping (an
\* empty file loads as None), or a mapping with some sections and some
\* keys in them.
MissingFile == [kind |-> "missing", sections |-> {}, keys |-> {}]
InvalidFile == [kind |-> "invalid", sections |-> {}, keys |-> {}]
EmptyFile == [kind |-> "none", sections |-> {}, keys |-> {}]
Mapping(sections, keys) == [kind |-> "mapping", sections |-> sections, keys |-> keys]
SettingsFiles ==
    {MissingFile, InvalidFile, EmptyFile} \cup
    UNION {{Mapping(secs, keys) :
                keys \in SUBSET {k \in Keys : SectionOf(k) \in secs}} :
           secs \in SUBSET Sections}
CompleteFile == Mapping(Sections, Keys)

\* KBDaemon(): _load_config opens and parses the file, and __init__ reads
\* config['processing'], config['git'] and config['capture'].
Constructs(file) ==
    file.kind = "mapping" /\ {"processing", "git", "capture"} \subseteq file.sections

\* self.config['daemon']['process_interval'] and, unless the interval has
\* passed, self.config['processing']['batch_size']: whether the lookups
\* of one pass of process_queue succeed.
TriggerReads(file, due) ==
    /\ "process_interval" \in file.keys
    /\ due \/ "batch_size" \in file.keys

\* self.config['processing']['min_importance'] in _process_events.
DispatchReads(file) == "min_importance" \in file.keys

CfgUnchanged ==
    UNCHANGED <<schedVars, storeVars, catVars, procVars, shellVars, dbVars,
                pmVars, shadowVars, revVars, unitVars>>

\* `kb_daemon.py start --foreground`: KBDaemon(), then start(), which sets
\* self.running and starts the threads.
StartDaemon ==
    /\ daemonState = "none"
    /\ IF Constructs(settings)
       THEN daemonState' = "running" /\ consumerState' = "started"
       ELSE daemonState' = "failed" /\ consumerState' = "none"
    /\ UNCHANGED settings
    /\ CfgUnchanged

\* One pass of `while self.running` in process_queue; `due` is whether
\* process_interval seconds have passed, `batch` whether the pass hands a
\* batch to _process_events.  A KeyError ends the thread and nothing
\* else: start() goes on sleeping in `while self.running`.
ConsumerPass(due, batch) ==
    /\ daemonState = "running"
    /\ consumerState \in {"started", "looping"}
    /\ consumerState' =
          IF TriggerReads(settings, due) /\ (batch => DispatchReads(settings))
          THEN "looping" ELSE "dead"
    /\ UNCHANGED <<settings, daemonState>>
    /\ CfgUnchanged

\* stop()
StopDaemon ==
    /\ daemonState = "running"
    /\ daemonState' = "stopped"
    /\ UNCHANGED <<settings, consumerState>>
    /\ CfgUnchanged

\* The daemon of the other specifications runs on a complete file.
CfgInit ==
    /\ settings = CompleteFile
    /\ daemonState = "running"
    /\ consumerState = "looping"

\* A daemon about to be started on any settings file.
AnyCfgInit ==
    /\ settings \in SettingsFiles
    /\ daemonState = "none"
    /\ consumerState = "none"

ShadowOffInit ==
    /\ shadowMode = FALSE
    /\ shadowLogs = <<>>

ShadowOnInit ==
    /\ shadowMode = TRUE
    /\ shadowLogs = <<>>

(***************************************************************************)
(* Initial state: KBDaemon.__init__ followed by start().                   *)
(***************************************************************************)
SchedInit ==
    /\ queue = <<>>
    /\ nextId = 1
    /\ running = TRUE
    /\ alive = TRUE
    /\ pc = "head"
    /\ buffer = <<>>
    /\ elapsed = 0
    /\ shouldProcess = FALSE
    /\ slept = FALSE
    /\ currentProject = "none"
    /\ tickElapsed = 0
    /\ tickLen = 0
    /\ dispatched = FALSE
    /\ batches = <<>>
    /\ catInput = <<>>
    /\ sumInput = <<>>
    /\ storeInput = <<>>

RevInit == reviewsRun = 0 /\ reviewPass = NoPass

\* No function is being called on its own.
UnitInit == callArg = <<>> /\ callRet = <<>>

ExtInit == PmInit /\ CfgInit /\ ShadowOffInit /\ RevInit /\ UnitInit

PipeInit == CatInit /\ ProcInit /\ ShellInit /\ DbInit /\ ExtInit

Init == SchedInit /\ StoreInit /\ PipeInit

(***************************************************************************)
(* Producers: capture_queue.put(event), atomic under the queue's mutex.    *)
(***************************************************************************)
Enqueue(p) ==
    /\ alive
    /\ nextId <= MaxEvents
    /\ queue' = Append(queue, Captured(nextId))
    /\ nextId' = nextId + 1
    /\ UNCHANGED <<running, alive, pc, buffer, elapsed, shouldProcess, slept,
                   currentProject, tickElapsed, tickLen, dispatched, batches,
                   catInput, sumInput, storeInput>>
    /\ UNCHANGED <<storeVars, pipeVars>>

(***************************************************************************)
(* The consumer thread, process_queue.                                     *)
(***************************************************************************)
\* `while self.running` fails: the function returns and its buffer is gone.
LoopExit ==
    /\ alive /\ pc = "head" /\ ~running
    /\ pc' = "exited"
    /\ buffer' = <<>>
    /\ UNCHANGED <<queue, nextId, running, alive, elapsed, shouldProcess, slept,
                   currentProject, tickElapsed, tickLen, dispatched, batches,
                   catInput, sumInput, storeInput>>
    /\ UNCHANGED <<storeVars, pipeVars>>

\* current_time = time.time(); should_process = ... (before the drain).
\* d is the time since the previous sample: at least the sleep.
TriggerCheck ==
    /\ alive /\ pc = "head" /\ running
    /\ \E d \in (IF slept THEN SleepSeconds ELSE 0)..MaxStep :
          /\ elapsed' = Saturate(elapsed + d)
          /\ shouldProcess' = ShouldProcess(Saturate(elapsed + d), Len(buffer))
          /\ tickElapsed' = Saturate(elapsed + d)
    /\ tickLen' = Len(buffer)
    /\ pc' = "drain"
    /\ catInput' = <<>> /\ sumInput' = <<>> /\ storeInput' = <<>>
    /\ UNCHANGED <<queue, nextId, running, alive, buffer, slept, currentProject,
                   dispatched, batches>>
    /\ UNCHANGED <<storeVars, pipeVars>>

CanDrainLE == queue # <<>> /\ Len(buffer) <= DrainCap
CanDrain == queue # <<>> /\ Len(buffer) < DrainCap

AppendedFront(buf, e) == <<e>> \o buf
Appended(buf, e) == Append(buf, e)

\* One pass of the inner while: get_nowait() and append.
DrainOne ==
    /\ alive /\ pc = "drain" /\ CanDrain
    /\ buffer' = Appended(buffer, Head(queue))
    /\ queue' = Tail(queue)
    /\ UNCHANGED <<nextId, running, alive, pc, elapsed, shouldProcess, slept,
                   currentProject, tickElapsed, tickLen, dispatched, batches,
                   catInput, sumInput, storeInput>>
    /\ UNCHANGED <<storeVars, pipeVars>>

DrainDone ==
    /\ alive /\ pc = "drain" /\ ~CanDrain
    /\ pc' = "decide"
    /\ UNCHANGED <<queue, nextId, running, alive, buffer, elapsed, shouldProcess,
                   slept, currentProject, tickElapsed, tickLen, dispatched,
                   batches, catInput, sumInput, storeInput>>
    /\ UNCHANGED <<storeVars, pipeVars>>

\* The should_process that `if should_process and events_buffer` tests:
\* the value assigned before the drain, whatever the elapsed time el of
\* the iteration and the size n of the buffer after the drain.
DecidedAfterDrain(should, el, n) == ShouldProcess(el, n)
Decided(should, el, n) == should

\* `if should_process and events_buffer`: _process_events(events_buffer),
\* the buffer is cleared and the clock reset; then time.sleep(1).
Dispatch ==
    /\ alive /\ pc = "decide"
    /\ Decided(shouldProcess, tickElapsed, Len(buffer)) /\ buffer # <<>>
    /\ \E projs \in [1..Len(buffer) -> Projects],
          imps \in [1..Len(buffer) -> Importances] :
          LET tagged == AddProjects(buffer, 1, currentProject, projs)
              categorized == CategorizeBatch(tagged.events, imps)
              important == ImportantEvents(categorized)
          IN /\ currentProject' = tagged.cur
             /\ catInput' = tagged.events
             /\ sumInput' = IF Len(important) > SummarizeAbove
                            THEN important ELSE <<>>
             /\ storeInput' = IF Len(important) > SummarizeAbove
                              THEN <<>> ELSE important
    /\ batches' = Append(batches, buffer)
    /\ buffer' = <<>>
    /\ elapsed' = 0
    /\ dispatched' = TRUE
    /\ slept' = TRUE
    /\ pc' = "head"
    /\ UNCHANGED <<queue, nextId, running, alive, shouldProcess, tickElapsed,
                   tickLen>>
    /\ UNCHANGED <<storeVars, pipeVars>>

\* The time since last_process_time after an iteration that skipped the
\* `if should_process and events_buffer` block: last_process_time is
\* assigned inside that block only.
ClockResetOnTrigger(el, should) == IF should THEN 0 ELSE el
ClockAfterIdle(el, should) == el

\* The condition fails: nothing but time.sleep(1).
NoDispatch ==
    /\ alive /\ pc = "decide"
    /\ ~(Decided(shouldProcess, tickElapsed, Len(buffer)) /\ buffer # <<>>)
    /\ elapsed' = ClockAfterIdle(elapsed, shouldProcess)
    /\ dispatched' = FALSE
    /\ slept' = TRUE
    /\ pc' = "head"
    /\ UNCHANGED <<queue, nextId, running, alive, buffer, shouldProcess,
                   currentProject, tickElapsed, tickLen, batches, catInput,
                   sumInput, storeInput>>
    /\ UNCHANGED <<storeVars, pipeVars>>

Consumer == LoopExit \/ TriggerCheck \/ DrainOne \/ DrainDone \/ Dispatch
            \/ NoDispatch

(***************************************************************************)
(* Shutdown: stop() clears self.running; the signal handler then calls     *)
(* sys.exit(0) (or start() returns), which ends the process and with it    *)
(* the daemon threads, wherever they are.                                  *)
(***************************************************************************)
Stop ==
    /\ alive /\ running
    /\ running' = FALSE
    /\ UNCHANGED <<queue, nextId, alive, pc, buffer, elapsed, shouldProcess,
                   slept, currentProject, tickElapsed, tickLen, dispatched,
                   batches, catInput, sumInput, storeInput>>
    /\ UNCHANGED <<storeVars, pipeVars>>

ProcessExit ==
    /\ alive /\ ~running
    /\ alive' = FALSE
    /\ UNCHANGED <<queue, nextId, running, pc, buffer, elapsed, shouldProcess,
                   slept, currentProject, tickElapsed, tickLen, dispatched,
                   batches, catInput, sumInput, storeInput>>
    /\ UNCHANGED <<storeVars, pipeVars>>

Next ==
    \/ \E p \in Producers : Enqueue(p)
    \/ Consumer
    \/ Stop
    \/ ProcessExit

Spec == Init /\ [][Next]_vars

LiveEnqueue(p) == nextId <= MaxLiveEvents /\ Enqueue(p)

LiveNext ==
    \/ \E p \in Producers : LiveEnqueue(p)
    \/ Consumer
    \/ Stop
    \/ ProcessExit

\* The operating system keeps scheduling the consumer thread.
LiveSpec == Init /\ [][LiveNext]_vars /\ WF_vars(Consumer)

(***************************************************************************)
(* The store's operations, called in any order by the daemon and the       *)
(* review workflow.                                                        *)
(***************************************************************************)
\* Calls of mark_events_reviewed so far, and the rows written to the
\* tables other than events, and other than kb_entries.
MarkCalls == clock - 1
RowsBesideEvents == (nextKbId - 1) + reviewSessions + summaries
RowsBesideKb == Len(eventsTable) + reviewSessions + summaries
\* entry_id arguments: the ids handed out and one that was not.
KbIdArgs == 1..nextKbId

\* The events table under every interleaving of its operations, with at
\* most one row written to the other tables.
StoreNext ==
    \/ \E e \in EventInputs : Len(eventsTable) < MaxRows /\ StoreEvent(e)
    \/ \E ids \in MarkInputs : MarkCalls < MaxMarks /\ MarkBegin(ids)
    \/ MarkUpdate
    \/ MarkCommit
    \/ MarkFail
    \/ RowsBesideEvents = 0 /\ CreateReviewSession
    \/ RowsBesideEvents = 0 /\ StoreSummary
    \/ \E entry \in EntryInputs : RowsBesideEvents = 0 /\ CreateKbEntry(entry)
    \/ \E id \in KbIdArgs : ApproveKbEntry(id)
    \/ \E id \in KbIdArgs : DeleteKbEntry(id)

StoreSpec == Init /\ [][StoreNext]_vars

\* Every operation of the store, with mark_events_reviewed given ids of
\* rows and an id no row has.
FrameInputs == {ShellEvent, TestEvent}
FrameIds ==
    UNION {{ids \in [1..n -> 1..(Len(eventsTable) + 1)] :
                \A a, b \in 1..n : a # b => ids[a] # ids[b]} :
           n \in 0..(Len(eventsTable) + 1)}
FrameNext ==
    \/ \E e \in FrameInputs : Len(eventsTable) < MaxFrameRows /\ StoreEvent(e)
    \/ \E ids \in FrameIds : MarkCalls < MaxFrameMarks /\ MarkBegin(ids)
    \/ MarkUpdate
    \/ MarkCommit
    \/ MarkFail
    \/ RowsBesideEvents = 0 /\ CreateReviewSession
    \/ RowsBesideEvents = 0 /\ StoreSummary
    \/ \E entry \in EntryInputs :
          RowsBesideEvents = 0 /\ CreateKbEntry(entry)
    \/ \E id \in KbIdArgs : ApproveKbEntry(id)
    \/ \E id \in KbIdArgs : DeleteKbEntry(id)

FrameSpec == Init /\ [][FrameNext]_vars

\* The kb_entries table under every interleaving of its operations, with
\* at most one row written to the other tables and one call marking it.
KbNext ==
    \/ \E entry \in EntryInputs : nextKbId <= MaxKbEntries /\ CreateKbEntry(entry)
    \/ \E id \in KbIdArgs : ApproveKbEntry(id)
    \/ \E id \in KbIdArgs : DeleteKbEntry(id)
    \/ \E e \in EventInputs : RowsBesideKb = 0 /\ StoreEvent(e)
    \/ \E ids \in MarkInputs : MarkCalls = 0 /\ MarkBegin(ids)
    \/ MarkUpdate
    \/ MarkCommit
    \/ MarkFail
    \/ RowsBesideKb = 0 /\ CreateReviewSession
    \/ RowsBesideKb = 0 /\ StoreSummary

KbSpec == Init /\ [][KbNext]_vars

(***************************************************************************)
(* The categorizer on its own, and the categorizer feeding the summarizer. *)
(***************************************************************************)
\* Events categorize_batch has been handed so far.
CatEvents == Len(contextWindow)

CatNext ==
    \E events \in Batches(CatInputs, MaxCatEvents - CatEvents) : Categorize(events)

CatSpec == Init /\ [][CatNext]_vars

SumNext ==
    \/ \E events \in Batches(SumInputs, MaxCatEvents - CatEvents) :
          summarizeCalls = 0 /\ Categorize(events)
    \/ summarizeCalls < MaxSummarizeCalls /\ Summarize

SumSpec == Init /\ [][SumNext]_vars

\* The shell monitor reading the events file.
ShellNext ==
    \E event \in ShellInputs : Len(shellOut) < MaxShellEvents /\ ProcessCommand(event)

ShellSpec == Init /\ [][ShellNext]_vars

\* _process_events on the batches the consumer loop hands it.
ProcNext ==
    \E events \in Batches(ProcInputs, MaxProcEvents - procEvents) :
        ProcessEvents(events)

ProcSpec == Init /\ [][ProcNext]_vars

\* get_statistics between the operations of the store, in any order.
StatWrites == Len(eventsTable) + (nextKbId - 1) + reviewSessions + summaries
StatNext ==
    \/ \E e \in StatInputs : StatWrites < MaxStatWrites /\ StoreEvent(e)
    \/ \E ids \in MarkInputs : MarkCalls = 0 /\ MarkBegin(ids)
    \/ MarkUpdate
    \/ MarkCommit
    \/ MarkFail
    \/ StatWrites < MaxStatWrites /\ CreateReviewSession
    \/ StatWrites < MaxStatWrites /\ StoreSummary
    \/ \E entry \in EntryInputs : StatWrites < MaxStatWrites /\ CreateKbEntry(entry)
    \/ \E id \in KbIdArgs : ApproveKbEntry(id)
    \/ \E id \in KbIdArgs : DeleteKbEntry(id)
    \/ statCalls < MaxStatCalls /\ GetStatistics

StatSpec == Init /\ [][StatNext]_vars

\* DatabaseManager constructed, by the daemon and by every command of the
\* CLI, on a file an earlier version may have left; the objects store
\* events and mark one reviewed.
SchemaInit ==
    SchedInit /\ LegacyInit /\ CatInit /\ ProcInit /\ ShellInit /\ ExtInit
SchemaNext ==
    \/ constructions < MaxConstructions /\ Construct
    \/ \E e \in SchemaInputs :
          constructions > 0 /\ Len(eventsTable) < MaxSchemaRows /\ StoreEvent(e)
    \/ \E id \in 1..Len(eventsTable) :
          constructions > 0 /\ MarkCalls = 0 /\ MarkBegin(<<id>>)
    \/ MarkUpdate
    \/ MarkCommit
    \/ MarkFail

SchemaSpec == SchemaInit /\ [][SchemaNext]_vars

\* The commands of main and the daemons they start, on a host that runs
\* other programs and reuses process ids.
PidNext ==
    \/ \E child \in Pids, ok \in BOOLEAN :
          commands < MaxCommands /\ StartBackground(child, ok)
    \/ \E p \in Pids : commands < MaxCommands /\ StartForeground(p)
    \/ \E graceful \in BOOLEAN : commands < MaxCommands /\ StopCommand(graceful)
    \/ commands < MaxCommands /\ StatusCommand
    \/ \E p \in Pids : commands < MaxCommands /\ DaemonStop(p)
    \/ \E p \in Pids : DaemonKilled(p)
    \/ \E p \in Pids, kind \in Unrelated : ProgramStarts(p, kind)
    \/ \E p \in Pids : ProgramEnds(p)

PidSpec == Init /\ [][PidNext]_vars

\* Start commands of both modes run side by side, each background start
\* in its two halves, and daemons that end.
RaceNext ==
    \/ commands + starting < MaxCommands /\ StartCheck
    \/ \E child \in Pids, ok \in BOOLEAN : StartSpawn(child, ok)
    \/ \E p \in Pids : commands + starting < MaxCommands /\ StartForeground(p)
    \/ \E p \in Pids : commands + starting < MaxCommands /\ DaemonStop(p)
    \/ \E p \in Pids : DaemonKilled(p)

RaceSpec == Init /\ [][RaceNext]_vars

\* The review workflow run on the events the daemon stores.
ReviewInputs == {ShellEvent, FileEvent, TestEvent, MinorFileEvent}
ReviewNext ==
    \/ \E e \in ReviewInputs : Len(eventsTable) < MaxReviewRows /\ StoreEvent(e)
    \/ \E events \in GetUnreviewedEvents(eventsTable, ReviewMinImportance) :
          \E answers \in [1..Len(GenerateKbEntries(events)) -> Answers] :
             /\ reviewsRun < MaxReviews
             /\ Len(kbEntries) < MaxKbEntries
             /\ DailyReview(events, answers)

ReviewSpec == Init /\ [][ReviewNext]_vars

\* A review in the terminal while the daemon stores events.
PassInputs == {ShellEvent, TestEvent, MinorFileEvent}
PassNext ==
    \/ \E e \in PassInputs : Len(eventsTable) < MaxPassRows /\ StoreEvent(e)
    \/ \E events \in GetUnreviewedEvents(eventsTable, ReviewMinImportance) :
          reviewsRun < MaxPasses /\ ReviewRead(events)
    \/ \E answers \in [1..Len(GenerateKbEntries(reviewPass.events)) -> Answers] :
          Len(kbEntries) < MaxKbEntries /\ ReviewFinish(answers)

PassSpec == Init /\ [][PassNext]_vars

\* Every variable but callArg and callRet as Init has it.
OtherInit ==
    /\ SchedInit /\ StoreInit /\ CatInit /\ ProcInit /\ ShellInit /\ DbInit
    /\ PmInit /\ CfgInit /\ ShadowOffInit /\ RevInit

OtherUnchanged ==
    UNCHANGED <<schedVars, storeVars, catVars, procVars, shellVars, dbVars,
                pmVars, cfgVars, shadowVars, revVars>>

\* categorize_event on one event, with or without a category, an
\* importance, the words 'fix', 'breaking' and 'WIP', an error flag,
\* external commits and a duration around the threshold.
ImpEvents ==
    {[BlankEvent(type, <<Ts(0, 0)>>) EXCEPT
         !.category = category, !.words = words, !.importance = importance,
         !.is_error = isError, !.external_commits = external,
         !.duration = duration] :
        type \in {"git_commit", "shell_command"},
        category \in {Absent, "testing", "bugfix", "git_commit"},
        words \in SUBSET {"fix", "breaking", "WIP"},
        importance \in {<<>>, <<4>>},
        isError \in BOOLEAN,
        external \in {0, 2},
        duration \in {LongDuration - 1, LongDuration, LongDuration + 1}}

ImpInit == OtherInit /\ callArg \in ImpEvents /\ callRet = <<>>

\* self.context_window.append(event); categorize_event(event)
CategorizeEventCall ==
    /\ callRet = <<>>
    /\ callRet' = <<CategorizeEvent(callArg, <<callArg>>)>>
    /\ UNCHANGED callArg
    /\ OtherUnchanged

ImpSpec == ImpInit /\ [][CategorizeEventCall]_vars

\* _detect_session on a context window: some events, then a run of
\* events that count for no session, then the latest events.  With the
\* longer runs the first events are more than ten entries back.
ErrorEvent == [BlankEvent("shell_command", <<>>) EXCEPT !.is_error = TRUE]
FixEvent == [BlankEvent("shell_command", <<>>) EXCEPT !.fixes_error = TRUE]
CreatedEvent == [BlankEvent("file_change", <<>>) EXCEPT !.category = "code_created"]
DocEvent == [BlankEvent("file_change", <<>>) EXCEPT !.category = "documentation"]
ReadmeCreatedEvent ==
    [BlankEvent("file_change", <<>>) EXCEPT
        !.category = "test_created", !.words = {"README"}]
PlainEvent == [BlankEvent("shell_command", <<>>) EXCEPT !.category = "general"]
SessionEvents == {ErrorEvent, FixEvent, CreatedEvent, DocEvent, ReadmeCreatedEvent}
PlainRuns == {0, RecentWindow - 2, RecentWindow - 1}
Windows ==
    {old \o [i \in 1..n |-> PlainEvent] \o new :
        old \in UNION {[1..k -> SessionEvents] : k \in 0..MaxOldEvents},
        n \in PlainRuns,
        new \in UNION {[1..k -> SessionEvents] : k \in 0..MaxNewEvents}}

SessInit == OtherInit /\ callArg \in Windows /\ callRet = <<>>

\* _detect_session() with self.context_window = callArg
DetectSessionCall ==
    /\ callRet = <<>>
    /\ callRet' = <<DetectSession(callArg)>>
    /\ UNCHANGED callArg
    /\ OtherUnchanged

SessSpec == SessInit /\ [][DetectSessionCall]_vars

\* categorize_batch called again and again on one categorizer, on batches
\* of unremarkable events that carry the number of their arrival as their
\* timestamp.
Arrivals == IF contextWindow = <<>> THEN 0
            ELSE contextWindow[Len(contextWindow)].timestamp[1].sec
ArrivingBatch(n) ==
    [i \in 1..n |-> [PlainEvent EXCEPT !.timestamp = <<Ts(Arrivals + i, 0)>>]]

WinNext ==
    \E n \in 1..MaxWinBatch :
       Arrivals + n <= MaxWinEvents /\ Categorize(ArrivingBatch(n))

WinSpec == Init /\ [][WinNext]_vars

\* categorize_batch on batches with events that have no 'data' key.
NoDataEvent(type) == [BlankEvent(type, <<>>) EXCEPT !.payload = FALSE]
DataInputs ==
    {NoDataEvent("shell_command"), NoDataEvent("file_change"),
     NoDataEvent("git_commit"), GitFixEvent, TestFailedEvent}

DataNext ==
    \E events \in Batches(DataInputs, MaxDataEvents - CatEvents) :
       Categorize(events)

DataSpec == Init /\ [][DataNext]_vars

\* _extract_problems_solved on a batch of failed and passing runs of two
\* commands, a minute apart in the order of the batch.
RunEvent(command, failed, minute) ==
    [BlankEvent("shell_command", <<Ts(60 * minute, 0)>>) EXCEPT
        !.command = command, !.is_error = failed, !.fixes_error = ~failed,
        !.exit_code = IF failed THEN 1 ELSE 0]
Runs == {"npm", "pytest"} \X BOOLEAN
RunBatches ==
    UNION {{[i \in 1..n |-> RunEvent(runs[i][1], runs[i][2], i)] :
               runs \in [1..n -> Runs]} : n \in 1..MaxPairEvents}

PairInit == OtherInit /\ callArg \in RunBatches /\ callRet = <<>>

\* self._extract_problems_solved(events)
ExtractProblemsSolvedCall ==
    /\ callRet = <<>>
    /\ callRet' = <<ExtractProblemsSolved(callArg)>>
    /\ UNCHANGED callArg
    /\ OtherUnchanged

PairSpec == PairInit /\ [][ExtractProblemsSolvedCall]_vars

\* A daemon started on each settings file there can be.
CfgSpecInit ==
    /\ SchedInit /\ StoreInit /\ CatInit /\ ProcInit /\ ShellInit /\ DbInit
    /\ PmInit /\ AnyCfgInit /\ ShadowOffInit /\ RevInit /\ UnitInit
CfgNext ==
    \/ StartDaemon
    \/ \E due, batch \in BOOLEAN : ConsumerPass(due, batch)
    \/ StopDaemon

CfgSpec == CfgSpecInit /\ [][CfgNext]_vars

\* _process_events with daemon.shadow_mode set.
ShadowInit ==
    /\ SchedInit /\ StoreInit /\ CatInit /\ ProcInit /\ ShellInit /\ DbInit
    /\ PmInit /\ CfgInit /\ ShadowOnInit /\ RevInit /\ UnitInit

ShadowSpec == ShadowInit /\ [][ProcNext]_vars

(***************************************************************************)
(* Properties of the scheduler.                                            *)
(***************************************************************************)
IsCaptured(e) == e.type = "captured"

\* Arrival numbers of the captured events of a list, in list order.
CapturedIds(list) ==
    LET cs == SelectSeq(list, IsCaptured) IN [i \in 1..Len(cs) |-> cs[i].id]

Increasing(ns) == \A i, j \in 1..Len(ns) : i < j => ns[i] < ns[j]

DispatchedIds == Range(CapturedIds(Flatten(batches)))

\* The loop has just completed an iteration: tickElapsed, tickLen and
\* dispatched describe that iteration, buffer is its buffer after the drain
\* (emptied if the iteration dispatched).
IterationDone == alive /\ pc = "head" /\ slept

\* C1: an iteration of process_queue dispatches exactly when its buffer is
\* non-empty after the drain and one of the two triggers held at its trigger
\* check: the buffer had reached batch_size (whatever the elapsed time) or
\* the time since the last dispatch had reached process_interval (whatever
\* the buffer size).  No batch is ever empty.
C1_DispatchOnEitherTrigger ==
    /\ \A k \in 1..Len(batches) : batches[k] # <<>>
    /\ IterationDone =>
        /\ dispatched =>
              /\ buffer = <<>>
              /\ tickLen >= BatchSize \/ tickElapsed >= ProcessInterval
        /\ ~dispatched =>
              \/ buffer = <<>>
              \/ tickLen < BatchSize /\ tickElapsed < ProcessInterval

\* C1 witness: a dispatch on the size trigger alone, before the interval
\* has elapsed.
C1_Witness ==
    /\ IterationDone /\ dispatched
    /\ tickLen >= BatchSize /\ tickElapsed < ProcessInterval

\* C2: once the daemon has terminated, every captured event has been
\* dispatched through _process_events (shutdown drops no event).
C2_ShutdownFlushesEverything ==
    ~alive => \A n \in 1..(nextId - 1) : n \in DispatchedIds

\* C3: while the consumer loop runs, every enqueued event is in exactly one
\* of the queue, the buffer and the dispatched batches (so an event the
\* drain did not take is still queued), no event is ever in two batches,
\* and the buffer never holds more than the drain cap.
C3_EveryEventInOnePlace ==
    LET places == CapturedIds(Flatten(batches) \o buffer \o queue)
        Count(n) == Cardinality({i \in 1..Len(places) : places[i] = n})
    IN /\ Len(buffer) <= DrainCap
       /\ \A n \in 1..(nextId - 1) : Count(n) <= 1
       /\ (alive /\ pc # "exited") => \A n \in 1..(nextId - 1) : Count(n) = 1

\* C3 witness: a drain stopped by the cap with events left in the queue.
C3_Witness ==
    /\ alive /\ pc = "decide"
    /\ Len(buffer) = DrainCap /\ queue # <<>>

\* C4: the captured events of a dispatched batch are passed to
\* categorize_batch, and those of them that are important to summarize, in
\* the order in which they were enqueued.
C4_BatchKeepsArrivalOrder ==
    /\ Increasing(CapturedIds(catInput))
    /\ Increasing(CapturedIds(sumInput))
    /\ catInput # <<>> =>
          /\ batches # <<>>
          /\ CapturedIds(catInput) = CapturedIds(batches[Len(batches)])
    /\ \A n \in Range(CapturedIds(sumInput)) : n \in Range(CapturedIds(catInput))

\* C4 witness: a summarized batch of several captured events, one of which
\* was filtered out as unimportant.
C4_Witness ==
    /\ Len(CapturedIds(sumInput)) >= 2
    /\ Len(CapturedIds(sumInput)) < Len(CapturedIds(catInput))

\* C5: while the daemon keeps running, every enqueued event is eventually
\* dispatched in some batch.
C5_EveryEventEventuallyDispatched ==
    \A n \in 1..MaxLiveEvents :
        (nextId > n) ~> (n \in DispatchedIds \/ ~running)

\* C5 witness: after low traffic that never reached batch_size, the events
\* were dispatched by the interval trigger.
C5_Witness ==
    /\ IterationDone /\ dispatched
    /\ tickLen < BatchSize /\ tickElapsed >= ProcessInterval
    /\ Len(batches[Len(batches)]) < BatchSize

(***************************************************************************)
(* Properties of the store.                                                *)
(***************************************************************************)
\* Ids of the rows the WHERE clause of the review query must select.
UnreviewedIds(minImportance) ==
    {eventsTable[i].id : i \in {k \in 1..Len(eventsTable) :
        eventsTable[k].reviewed = 0 /\ eventsTable[k].importance >= minImportance}}

\* C6: an event whose id a committed mark_events_reviewed call has covered
\* is in no list get_unreviewed_events returns afterwards, for any
\* min_importance and after any further store operations, a second mark of
\* the same ids included.
C6_ReviewedNeverReturned ==
    \A m \in MinImportanceArgs :
        \A result \in GetUnreviewedEvents(eventsTable, m) :
            \A k \in 1..Len(result) : result[k].id \notin everReviewed

\* A reviewed event is being marked a second time while the query still
\* returns another event.
C6_Witness ==
    /\ txn.open /\ txn.ids = <<>>
    /\ Range(txn.all) \cap everReviewed # {}
    /\ \E result \in GetUnreviewedEvents(eventsTable, MinImportance) :
          Len(result) > 0

\* The instant at which a timestamp text was taken, in tenths of a second
\* of UTC: a text without the Z suffix is local time.
Instant(text) ==
    LET sec == text[1] - 48
        frac == IF Len(text) >= 3 /\ text[2] = Ord(".") THEN text[3] - 48 ELSE 0
        utc == text[Len(text)] = Ord("Z")
    IN (IF utc THEN sec ELSE sec - TzOffset) * 10 + frac

\* C7: get_unreviewed_events(min_importance) returns exactly the rows with
\* reviewed = 0 and importance >= min_importance, each once, and a returned
\* event is never older than the ones after it.
C7_ExactlyUnreviewedNewestFirst ==
    \A m \in MinImportanceArgs :
        \A result \in GetUnreviewedEvents(eventsTable, m) :
            /\ Ids(result) = UnreviewedIds(m)
            /\ Len(result) = Cardinality(UnreviewedIds(m))
            /\ \A i, j \in 1..Len(result) :
                  i < j => Instant(result[i].timestamp)
                              >= Instant(result[j].timestamp)

AllMarked(table, ids, date) ==
    \A i \in 1..Len(table) :
        IF table[i].id \in Range(ids)
        THEN table[i].reviewed = 1 /\ table[i].review_date = date
        ELSE table[i] = eventsTable[i]

\* C8: a call of mark_events_reviewed changes nothing before it ends, and
\* when it ends either every row named by its ids is reviewed with the one
\* review_date of the call and no other row is touched, or the table is as
\* it was before the call.
C8_MarkIsAllOrNothing ==
    [][/\ (txn.open /\ txn'.open) => eventsTable' = eventsTable
       /\ (txn.open /\ ~txn'.open) =>
             \/ /\ Len(eventsTable') = Len(eventsTable)
                /\ AllMarked(eventsTable', txn.all, txn.date)
             \/ eventsTable' = eventsTable]_vars

\* One committed call has marked two events: they share its review_date.
C8_Witness ==
    /\ ~txn.open
    /\ \E i, j \in 1..Len(eventsTable) :
          /\ i # j
          /\ eventsTable[i].reviewed = 1 /\ eventsTable[j].reviewed = 1
          /\ eventsTable[i].review_date = eventsTable[j].review_date

\* Keys an event may or may not carry.
OptionalKeys == {"data", "key_info", "session", "project", "is_error"}

\* The read-back record r has every field of the stored event e, unchanged.
RoundTrips(e, r) ==
    /\ r.timestamp = e.timestamp
    /\ r.type = e.type
    /\ r.category = e.category
    /\ r.importance = e.importance
    /\ \A k \in OptionalKeys :
          e[k] # Absent => k \in DOMAIN r /\ r[k] = e[k]

\* C9: the record read back for a stored event equals the event handed to
\* store_event in every field of that event (id and reviewed are new).
C9_RoundTripEqualsInput ==
    \A i \in 1..Len(eventsTable) :
        RoundTrips(inputs[i], RowToEvent(eventsTable[i]))

\* Ids create_kb_entry has returned.
CreatedKbIds == 1..(nextKbId - 1)

\* C10 as stated: an approved entry is approved and not pending, and every
\* entry created and never approved is pending, whatever else was called.
C10_PendingWhateverHappens ==
    /\ \A i \in 1..Len(kbEntries) :
          kbEntries[i].id \in kbApproveCalled => kbEntries[i].approved = 1
    /\ kbApproveCalled \cap PendingKbIds = {}
    /\ \A id \in CreatedKbIds : id \notin kbApproveCalled => id \in PendingKbIds

\* C10: an entry approve_kb_entry was called on is approved for as long as
\* it exists and is never pending again; an entry created, never approved
\* and never deleted is pending.
C10_KbEntryLifecycle ==
    /\ \A i \in 1..Len(kbEntries) :
          kbEntries[i].id \in kbApproveCalled => kbEntries[i].approved = 1
    /\ kbApproveCalled \cap PendingKbIds = {}
    /\ \A id \in CreatedKbIds :
          id \notin kbApproveCalled /\ id \notin kbDeleteCalled
              => id \in PendingKbIds

\* One entry approved, another still pending, a third party of the store
\* written in between.
C10_Witness ==
    /\ \E i \in 1..Len(kbEntries) :
          kbEntries[i].id \in kbApproveCalled /\ kbEntries[i].approved = 1
    /\ \E id \in CreatedKbIds :
          id \notin kbApproveCalled /\ id \in PendingKbIds
    /\ RowsBesideKb > 0

(***************************************************************************)
(* Properties of the categorizer and the summarizer.                       *)
(***************************************************************************)
\* C11: after categorize_batch every returned event has an importance, and
\* it lies between 0 and 10, whatever importance the event came with.
C11_ImportanceWithinScale ==
    \A i \in 1..Len(lastCategorized) :
        /\ lastCategorized[i].importance # <<>>
        /\ lastCategorized[i].importance[1] \in 0..MaxImportance

FeatureRun ==
    /\ Len(contextWindow) >= 3
    /\ \A k \in (Len(contextWindow) - 2)..Len(contextWindow) :
           contextWindow[k].category \in {"test_created", "code_created"}
    /\ ~(/\ \E k \in 1..Len(Recent(contextWindow)) : Recent(contextWindow)[k].is_error
         /\ \E k \in 1..Len(Recent(contextWindow)) : Recent(contextWindow)[k].fixes_error)
\* The session attached to the event categorized last.
LastSession == contextWindow[Len(contextWindow)].session
\* Timestamp b is a second or more after a.
SecondApart(a, b) ==
    b.sec - a.sec > 1 \/ (b.sec - a.sec = 1 /\ b.frac >= a.frac)

C17_CategorizeBatchIdempotent ==
    LET again == CategorizeBatchIn(windowBefore, lastCategorized, <<>>).events
    IN \A i \in 1..Len(lastCategorized) :
           /\ again[i].category = lastCategorized[i].category
           /\ again[i].importance = lastCategorized[i].importance
           /\ again[i].key_info = lastCategorized[i].key_info
           /\ again[i].session = lastCategorized[i].session

\* ---- the last summary and the list it was made of ----
Summarized == lastSummary.result # <<>>
SummaryOf(call) == call.result[1]
\* The session signatures the events of a list carry.
Signatures(events) ==
    {SessionKey(events[i].session) :
        i \in {k \in 1..Len(events) : events[k].session # NoSession}}
\* Two events of the list carry a debugging session of one signature.
DebuggingTwice(events) ==
    \E i, j \in 1..Len(events) :
        /\ i < j
        /\ events[i].session.type = "debugging"
        /\ events[j].session = events[i].session
SessionEntries(summary) ==
    SelectSeq(summary.key_activities, LAMBDA a : a.category = "session")
HighCount(events) ==
    Cardinality({i \in 1..Len(events) : ImportanceOr(events[i], 0) >= KeyImportance})

\* C12 as claimed: when several events of a batch carry a debugging
\* session of the same (type, duration) signature, the summary of the batch
\* has exactly one session entry for each signature.
C12_ExactlyOneEntryPerSignature ==
    (Summarized /\ DebuggingTwice(lastSummary.events)) =>
        Len(SessionEntries(SummaryOf(lastSummary)))
            = Cardinality(Signatures(lastSummary.events))

\* C12: a summary never has more session entries than its events carry
\* signatures, however many events share one; it has one for each
\* signature when they all fit under the cap on key activities behind the
\* events of importance 7 and more, and otherwise as many as fit.
C12_OneEntryPerSignatureUnderCap ==
    Summarized =>
        LET entries == SessionEntries(SummaryOf(lastSummary))
            sigs == Signatures(lastSummary.events)
            room == Max(KeyActivitiesCap - HighCount(lastSummary.events), 0)
        IN Len(entries) = Min(Cardinality(sigs), room)

\* C12 witness: two events of the summarized batch carry the same debugging
\* signature and the summary has one session entry.
C12_Witness ==
    /\ Summarized
    /\ DebuggingTwice(lastSummary.events)
    /\ Cardinality(Signatures(lastSummary.events)) = 1
    /\ Len(SessionEntries(SummaryOf(lastSummary))) = 1

\* Both of the last two calls of summarize were made, on the same list.
SummarizedTwice ==
    /\ lastSummary.result # <<>> /\ prevSummary.result # <<>>
    /\ lastSummary.events = prevSummary.events

ImportantCount ==
    Cardinality({i \in 1..Len(lastCategorized) :
                    ImportanceOr(lastCategorized[i], 0) >= MinImportance})

\* C13: a batch of _process_events with more than 5 events at or above
\* min_importance stores one summary, with a text that is not empty, and
\* no event; a batch with 1 to 5 of them stores each of them, in order,
\* and no summary.
C13_SummaryAboveFiveElseEvents ==
    /\ ImportantCount > SummarizeAbove =>
          /\ Len(summariesStored) = 1
          /\ summariesStored[1].text # <<>>
          /\ \A k \in 1..Len(summariesStored[1].text) :
                 summariesStored[1].text[k] # <<>>
          /\ summariesStored[1].event_count = ImportantCount
          /\ eventsStored = <<>>
    /\ ImportantCount \in 1..SummarizeAbove =>
          /\ summariesStored = <<>>
          /\ eventsStored = ImportantOf(lastCategorized)

\* C13 witness: a batch of six important events, summarized.
C13_Witness ==
    /\ ImportantCount = SummarizeAbove + 1
    /\ Len(summariesStored) = 1
    /\ eventsStored = <<>>

\* ---- the shell monitor ----
\* C14: when `npm test` fails and the next shell event is `npm test`
\* succeeding, the second comes out of _process_command with fixes_error
\* set and an importance of at least 8.
C14_PassAfterFailIsAFix ==
    \A i \in 1..(Len(shellOut) - 1) :
        (/\ shellOut[i] # <<>> /\ shellOut[i + 1] # <<>>
         /\ shellOut[i][1].command = "npm" /\ shellOut[i][1].args = {"test"}
         /\ shellOut[i][1].exit_code = 1
         /\ shellOut[i + 1][1].command = "npm"
         /\ shellOut[i + 1][1].args = {"test"}
         /\ shellOut[i + 1][1].exit_code = 0)
        => /\ shellOut[i + 1][1].fixes_error
           /\ shellOut[i + 1][1].importance[1] >= FixImportance


(***************************************************************************)
(* get_statistics.                                                         *)
(***************************************************************************)
\* The last call's dict.
LastStats == stats[1]
\* The stored events no committed call has marked reviewed and whose
\* importance, as store_event was given it, is at least 3.
UnreviewedInputs ==
    {i \in 1..Len(inputs) : i \notin everReviewed /\ inputs[i].importance >= 3}
\* The KB entries created and since neither approved nor deleted.
PendingCreated == CreatedKbIds \ (kbApproveCalled \cup kbDeleteCalled)
\* The dict agrees with what the store was given.
StatisticsCurrent ==
    /\ LastStats.total_events = Len(inputs)
    /\ LastStats.unreviewed_events = Cardinality(UnreviewedInputs)
    /\ LastStats.pending_entries = Cardinality(PendingCreated)
    /\ LastStats.total_summaries = summaries
    /\ LastStats.total_reviews = reviewSessions
    /\ StatWrites = 0 =>
          /\ LastStats.total_events = 0
          /\ LastStats.unreviewed_events = 0
          /\ LastStats.average_importance = 0
          /\ LastStats.total_summaries = 0
          /\ LastStats.pending_entries = 0
          /\ LastStats.total_reviews = 0
          /\ DOMAIN LastStats.events_by_category = {}

\* C19: every call of get_statistics returns the figures of the store as
\* it is at that call: all of them 0 on an empty database, and after any
\* operations unreviewed_events is the number of events not reviewed with
\* importance >= 3 and pending_entries the number of entries not approved.
C19_StatisticsCurrentAtEachCall ==
    [][statCalls' # statCalls => StatisticsCurrent']_vars

\* A call on a store holding a reviewed event, an event below 3 and a
\* pending entry, after an earlier call that returned other figures.
C19_Witness ==
    /\ statCalls = 2
    /\ LastStats.total_events = 2
    /\ LastStats.unreviewed_events = 0
    /\ LastStats.pending_entries = 1
    /\ everReviewed # {}
    /\ \E i \in 1..Len(inputs) : inputs[i].importance < 3

(***************************************************************************)
(* The schema upgrade.                                                     *)
(***************************************************************************)
\* C20: a construction on a table without the review columns adds both and
\* keeps every row, with what its columns held, each row now unreviewed; a
\* construction on a table that has them changes nothing.
C20_UpgradeIdempotentAndLossless ==
    [][constructions' # constructions =>
          /\ ReviewColumns \subseteq eventColumns'
          /\ Len(eventsTable') = Len(eventsTable)
          /\ \A i \in 1..Len(eventsTable) : \A c \in eventColumns :
                eventsTable'[i][c] = eventsTable[i][c]
          /\ ReviewColumns \cap eventColumns = {} =>
                \A i \in 1..Len(eventsTable) : eventsTable'[i].reviewed = 0
          /\ ReviewColumns \subseteq eventColumns =>
                /\ eventsTable' = eventsTable
                /\ eventColumns' = eventColumns]_vars

\* A file that held rows without the review columns was opened, one of the
\* rows was then marked reviewed and a new one stored, and the file was
\* opened again.
C20_Witness ==
    /\ constructions = 2
    /\ found[1].columns = BaseColumns
    /\ Len(found[1].rows) = 2
    /\ found[2] = Table(eventColumns, eventsTable)
    /\ Len(eventsTable) = 3
    /\ \E i \in 1..2 : eventsTable[i].reviewed = 1
    /\ \E i \in 1..2 : eventsTable[i].reviewed = 0


(***************************************************************************)
(* The commands start, stop and status, and the PID file.                  *)
(***************************************************************************)
\* The PID file names a live process that is the KB daemon.
DaemonRunning == pidFile # <<>> /\ procs[pidFile[1]] = "daemon"
\* The step is a run of one of `names`.
Ran(names) == commands' # commands /\ lastCmd'.command \in names
Daemons == {p \in Pids : procs[p] = "daemon"}

\* C21: a start command, in either mode, issued while the daemon named by
\* the PID file runs exits with a non-zero code, starts no daemon and
\* leaves the PID file as it was.
C21_StartWhileRunningRefused ==
    [][Ran({"start", "start_foreground"}) /\ DaemonRunning =>
          /\ lastCmd'.exit # <<>>
          /\ lastCmd'.exit # <<0>>
          /\ Daemons' = Daemons
          /\ pidFile' = pidFile]_vars

\* C22: a stop command that finds no PID file, a PID under which nothing
\* runs, or the PID of an unrelated program exits with a non-zero code.
C22_StopWithoutDaemonFails ==
    [][Ran({"stop"}) /\ ~DaemonRunning => lastCmd'.exit # <<0>>]_vars

\* C23: status reports running exactly when the PID file names the live
\* KB daemon, and a PID file that names a dead process or an unrelated
\* program is deleted.
C23_RunningOnlyIfVerifiedDaemon ==
    [][Ran({"status"}) =>
          /\ lastCmd'.result = DaemonRunning
          /\ ~DaemonRunning => pidFile' = <<>>]_vars

\* C24: cleanup() in a stopping daemon deletes the PID file if the file
\* holds that daemon's pid, and leaves the file as it is otherwise.
C24_CleanupOnlyOwnPidFile ==
    [][Ran({"cleanup"}) =>
          IF pidFile = <<lastCmd'.caller>>
          THEN pidFile' = <<>>
          ELSE pidFile' = pidFile]_vars

\* A daemon stopped while the PID file named another daemon, which runs
\* on: the file still names it.
C24_Witness ==
    /\ lastCmd.command = "cleanup"
    /\ lastCmd.fileBefore # <<>>
    /\ lastCmd.fileBefore # <<lastCmd.caller>>
    /\ pidFile = lastCmd.fileBefore
    /\ procs[pidFile[1]] = "daemon"
    /\ procs[lastCmd.caller] = "free"



(***************************************************************************)
(* Configuration errors and shadow mode.                                   *)
(***************************************************************************)
\* C25: the daemon is in the running state only on a settings file that
\* exists, parses and holds daemon.process_interval and
\* processing.batch_size.
C25_ConfigErrorIsFatal ==
    daemonState = "running" =>
        /\ settings.kind = "mapping"
        /\ Thresholds \subseteq settings.keys

\* C26: with daemon.shadow_mode set, a batch with important events is
\* written to the shadow log and neither an event row nor a summary row
\* is stored.
C26_ShadowModeStoresNothing ==
    (shadowMode /\ ImportantCount > 0) =>
        /\ shadowLogs # <<>>
        /\ shadowLogs[Len(shadowLogs)] = ImportantOf(lastCategorized)
        /\ eventsStored = <<>>
        /\ summariesStored = <<>>



(***************************************************************************)
(* The review workflow.                                                    *)
(***************************************************************************)
\* C27: review_sessions holds one row for every invocation of
\* daily_review that ran to completion.
C27_OneSessionPerReview == reviewSessions = reviewsRun


(***************************************************************************)
(* The dispatch clock.                                                     *)
(***************************************************************************)
\* The step that ends an iteration of process_queue.
TickEnds == alive /\ pc = "decide" /\ pc' = "head"

IsPrefix(a, b) == Len(a) <= Len(b) /\ SubSeq(b, 1, Len(a)) = a

\* C28: the dispatch clock changes exactly at dispatches.  The end of an
\* iteration that dispatches hands the whole buffer to _process_events,
\* empties the buffer and resets the time since last_process_time to 0; the
\* end of an iteration that does not dispatch, a trigger with an empty
\* buffer included, leaves that time and the buffer as they are.  Within
\* an iteration the buffer only grows and the time is never reset, and no
\* other step dispatches.
C28_ClockChangesAtDispatchOnly ==
    [][/\ TickEnds /\ shouldProcess /\ buffer # <<>> =>
             /\ batches' = Append(batches, buffer)
             /\ buffer' = <<>>
             /\ elapsed' = 0
       /\ TickEnds /\ ~(shouldProcess /\ buffer # <<>>) =>
             /\ batches' = batches
             /\ buffer' = buffer
             /\ elapsed' = elapsed
       /\ ~TickEnds =>
             /\ batches' = batches
             /\ elapsed' >= elapsed
             /\ pc' # "exited" => IsPrefix(buffer, buffer')]_vars

\* C28 witness: an iteration has just ended without a dispatch although
\* the time trigger held, because its buffer was empty; the time since the
\* last dispatch, which an earlier iteration made, is still the one sampled
\* at its trigger check.
C28_Witness ==
    /\ IterationDone /\ ~dispatched
    /\ shouldProcess /\ buffer = <<>>
    /\ batches # <<>>
    /\ elapsed = tickElapsed /\ tickElapsed >= ProcessInterval


(***************************************************************************)
(* Importance.                                                             *)
(***************************************************************************)
\* The rule for an event of category `category`: the base weight, at
\* least 9 on 'breaking', plus 2 up to 10 on an error, at least 7 with
\* external commits, plus 1 up to 10 on a duration above 60.
ReferenceImportance(category, event) ==
    LET base == IF category = "bugfix" THEN 7 ELSE 5
        broken == IF Mentions([event EXCEPT !.category = category], "breaking")
                     /\ base < 9 THEN 9 ELSE base
        failed == IF ~event.is_error THEN broken
                  ELSE IF broken + 2 > 10 THEN 10 ELSE broken + 2
        merged == IF event.external_commits > 0 /\ failed < 7 THEN 7 ELSE failed
    IN IF event.duration <= 60 THEN merged
       ELSE IF merged + 1 > 10 THEN 10 ELSE merged + 1

\* C29: categorize_event gives an event that came without an importance
\* the importance of the rule, for the category it leaves the event with.
C29_ImportanceIsTheRule ==
    callRet # <<>> /\ callArg.importance = <<>> =>
        callRet[1].importance
            = <<ReferenceImportance(callRet[1].category, callArg)>>


(***************************************************************************)
(* Session detection.                                                      *)
(***************************************************************************)
\* The positions of the last ten entries of the window callArg.
LastTen == {i \in 1..Len(callArg) : i > Len(callArg) - 10}
ErrorsInLastTen == {i \in LastTen : callArg[i].is_error}
FixesInLastTen == {i \in LastTen : callArg[i].fixes_error}
FeaturesInLastTen ==
    {i \in LastTen :
        callArg[i].category \in {"feature_start", "code_created", "test_created"}}
DocsInLastTen ==
    {i \in LastTen : \/ callArg[i].category = "documentation"
                     \/ "documentation" \in callArg[i].words
                     \/ "README" \in callArg[i].words}

\* C30: _detect_session returns no session on a window of fewer than 3
\* events; otherwise, counting over the last 10 entries, debugging with
\* at least one error and at least one fix, else feature_development with
\* at least 3 events of a feature category, else learning with at least 2
\* documentation-like events, else no session.
C30_SessionRules ==
    callRet # <<>> =>
        callRet[1].type =
            IF Len(callArg) < 3 THEN "none"
            ELSE IF ErrorsInLastTen # {} /\ FixesInLastTen # {} THEN "debugging"
            ELSE IF Cardinality(FeaturesInLastTen) >= 3 THEN "feature_development"
            ELSE IF Cardinality(DocsInLastTen) >= 2 THEN "learning"
            ELSE "none"

\* C30 witness: a window of more than ten entries whose error lies more
\* than ten entries back, with a fix and two documentation events among
\* the last ten: a learning session, not a debugging one.
C30_Witness ==
    /\ callRet # <<>> /\ Len(callArg) > 10
    /\ callArg[1].is_error /\ ErrorsInLastTen = {}
    /\ FixesInLastTen # {} /\ Cardinality(DocsInLastTen) >= 2
    /\ callRet[1].type = "learning"


(***************************************************************************)
(* The context window.                                                     *)
(***************************************************************************)
\* list[-n:]
LastOf(list, n) ==
    IF Len(list) <= n THEN list ELSE SubSeq(list, Len(list) - n + 1, Len(list))

\* C31: after a call of categorize_batch the context window holds the
\* last 50 of the events it held before followed by the events of the
\* call as they were returned, in that order; it never holds more than 50.
C31_WindowIsTheLastFifty ==
    [][/\ Len(contextWindow') <= 50
       /\ contextWindow' = LastOf(contextWindow \o lastCategorized', 50)]_vars

\* C31 witness: a call on a full window whose oldest arrival was already
\* gone has added more than one event.
C31_Witness ==
    /\ Len(windowBefore) = 50 /\ windowBefore[1].timestamp[1].sec > 1
    /\ Len(lastCategorized) > 1
    /\ Len(contextWindow) = 50
    /\ contextWindow[1].timestamp[1].sec
           = windowBefore[1].timestamp[1].sec + Len(lastCategorized)


(***************************************************************************)
(* Events without a payload.                                               *)
(***************************************************************************)
\* The events the last call of categorize_batch was given, as they were.
LastBatchSize == IF Len(contextWindow) > Len(windowBefore)
                 THEN Len(contextWindow) - Len(windowBefore) ELSE 0

\* C32: categorize_batch returns a list as long as the window grew, every
\* event of it with a category and an importance; an event of it without
\* 'data' that no keyword and no rule by type matches has category
\* general and importance 5.
C32_MissingDataDegrades ==
    /\ lastCategorized # Raised
    /\ Len(lastCategorized) = LastBatchSize
    /\ \A i \in 1..Len(lastCategorized) :
          LET e == lastCategorized[i]
          IN /\ e.category # Absent /\ e.importance # <<>>
             /\ e.key_info # NoKeyInfo
             /\ ~e.payload /\ e.type # "git_commit" =>
                   e.category = "general" /\ e.importance = <<5>>

\* C32 witness: a batch with an event without 'data' between two events
\* with it came back whole.
C32_Witness ==
    /\ Len(lastCategorized) = 3
    /\ lastCategorized[1].payload /\ lastCategorized[1].category = "bugfix"
    /\ ~lastCategorized[2].payload /\ lastCategorized[2].category = "general"
    /\ lastCategorized[3].payload /\ lastCategorized[3].category = "testing"


(***************************************************************************)
(* Key activities.                                                         *)
(***************************************************************************)
\* The positions, in the summarized list, of the events of importance 7
\* and more, and of the first event of each session signature.
HighAt ==
    {i \in 1..Len(lastSummary.events) :
        lastSummary.events[i].importance # <<>>
        /\ lastSummary.events[i].importance[1] >= 7}
FirstSeenAt ==
    {i \in 1..Len(lastSummary.events) :
        /\ lastSummary.events[i].session # NoSession
        /\ \A j \in 1..(i - 1) :
              \/ lastSummary.events[j].session = NoSession
              \/ lastSummary.events[j].session.type
                    # lastSummary.events[i].session.type
              \/ lastSummary.events[j].session.duration
                    # lastSummary.events[i].session.duration}
\* The k-th position of a set of positions.
Nth(positions, k) ==
    CHOOSE i \in positions : Cardinality({j \in positions : j <= i}) = k

\* C33: key_activities lists the events of importance 7 and more in the
\* order of the batch, then one entry per session signature in the order
\* in which the signatures first appear in the batch, each entry with the
\* timestamp of its event; the list is cut after the cap.
C33_KeyActivitiesListed ==
    Summarized =>
        LET acts == SummaryOf(lastSummary).key_activities
            events == lastSummary.events
            high == Cardinality(HighAt)
        IN /\ Len(acts) = Min(high + Cardinality(FirstSeenAt), KeyActivitiesCap)
           /\ \A k \in 1..Len(acts) :
                 IF k <= high
                 THEN /\ acts[k].timestamp = events[Nth(HighAt, k)].timestamp
                      /\ acts[k].category = events[Nth(HighAt, k)].category
                 ELSE LET e == events[Nth(FirstSeenAt, k - high)]
                      IN /\ acts[k].category = "session"
                         /\ acts[k].timestamp = e.timestamp
                         /\ acts[k].description[2] = e.session.type

\* C33 witness: the second event of the batch is its only one of
\* importance 7 and more, and both events carry a session, of different
\* signatures: the list has the second event, then the two sessions.
C33_Witness ==
    /\ Summarized
    /\ HighAt = {2} /\ FirstSeenAt = {1, 2}
    /\ Len(SummaryOf(lastSummary).key_activities) = 3
    /\ SummaryOf(lastSummary).key_activities[1].category # "session"
    /\ SummaryOf(lastSummary).key_activities[3].timestamp
          = lastSummary.events[2].timestamp


(***************************************************************************)
(* Problems solved.                                                        *)
(***************************************************************************)
\* In the batch callArg: the errors with the command of the fix at
\* position j that come before it, and the fixes that have one.
ErrorsBefore(j) ==
    {i \in 1..(j - 1) :
        callArg[i].is_error /\ callArg[i].command = callArg[j].command}
PairedFixes ==
    {j \in 1..Len(callArg) : callArg[j].fixes_error /\ ErrorsBefore(j) # {}}
Nearest(j) == CHOOSE i \in ErrorsBefore(j) : \A k \in ErrorsBefore(j) : k <= i

\* C34: problems_solved has one entry per fix that has an error with its
\* command before it in the batch, in the order of the fixes, and its
\* time_to_fix is the time from the nearest such error to the fix (the
\* events of the batch are a minute apart).
C34_NearestPrecedingError ==
    callRet # <<>> =>
        /\ Len(callRet[1]) = Cardinality(PairedFixes)
        /\ \A k \in 1..Len(callRet[1]) :
              LET j == Nth(PairedFixes, k)
              IN callRet[1][k].minutes = j - Nearest(j)

\* The entries of the last summary made from a debugging session, and
\* the debugging sessions with `fixed` set that its events carry.
ResolvedEntries ==
    SelectSeq(SummaryOf(lastSummary).problems_solved,
              LAMBDA p : p.solution = "Resolved")
FixedSessions ==
    {lastSummary.events[i].session :
        i \in {k \in 1..Len(lastSummary.events) :
                  /\ lastSummary.events[k].session.type = "debugging"
                  /\ lastSummary.events[k].session.fixed}}

\* C35: a summary whose problems_solved is not cut by its cap has one
\* entry per debugging session with `fixed` set among its events, however
\* many events carry the session.
C35_OneEntryPerDebuggingSession ==
    Summarized /\ Len(SummaryOf(lastSummary).problems_solved) < ProblemsCap =>
        Len(ResolvedEntries) = Cardinality(FixedSessions)


(***************************************************************************)
(* What the store leaves alone.                                            *)
(***************************************************************************)
\* The columns of a row that describe its event.
EventFields ==
    {"id", "timestamp", "type", "category", "importance", "data", "key_info",
     "session"}
SameEvent(a, b) == \A c \in EventFields : a[c] = b[c]

\* C36: no operation of the store removes a row of table events or
\* changes the timestamp, type, category, importance, data, key_info or
\* session of one; reviewed and review_date change only when a call of
\* mark_events_reviewed commits, and only in rows whose id the call was
\* given; a call given no id of a row leaves the table as it was.
C36_EventsAreImmutable ==
    [][/\ Len(eventsTable') >= Len(eventsTable)
       /\ \A i \in 1..Len(eventsTable) :
             /\ SameEvent(eventsTable'[i], eventsTable[i])
             /\ eventsTable'[i] # eventsTable[i] =>
                   /\ txn.open /\ ~txn'.open
                   /\ eventsTable[i].id \in Range(txn.all)
       /\ \A i \in 1..Len(txn'.work) :
             /\ i <= Len(eventsTable) /\ SameEvent(txn'.work[i], eventsTable[i])
             /\ txn'.work[i] # eventsTable[i] =>
                   eventsTable[i].id \in Range(txn'.all)]_vars

\* C36 witness: a call given the id of the first of two rows and an id
\* that no row has has made its updates: the first row is reviewed, the
\* second is as it was.
C36_Witness ==
    /\ txn.open /\ txn.ids = <<>>
    /\ Len(eventsTable) = 2
    /\ Range(txn.all) = {1, 3}
    /\ txn.work[1].reviewed = 1 /\ eventsTable[1].reviewed = 0
    /\ txn.work[2] = eventsTable[2]


(***************************************************************************)
(* A review while the daemon stores events.                                *)
(***************************************************************************)
\* The ids of the events the review pass has read.
PassIds == Range(EventIds(reviewPass.events))
\* The step in which a review pass marks its events.
PassMarks == reviewPass.open /\ reviewPass'.ended = "marked"

\* C37: when a review pass marks its events, the rows it had read become
\* reviewed and every other row, those stored since it read included,
\* stays as it was; a row stored since then that qualifies is in whatever
\* get_unreviewed_events returns next.
C37_PassMarksWhatItRead ==
    [][PassMarks =>
          /\ Len(eventsTable') = Len(eventsTable)
          /\ \A i \in 1..Len(eventsTable) :
                IF eventsTable[i].id \in PassIds
                THEN eventsTable'[i].reviewed = 1
                ELSE /\ eventsTable'[i] = eventsTable[i]
                     /\ Selected(eventsTable[i], 3) =>
                           \A next \in GetUnreviewedEvents(eventsTable', 3) :
                              eventsTable[i].id \in Range(EventIds(next))]_vars

\* C37 witness: a pass has just marked the events it had read, and the
\* table holds an unreviewed event of importance 3 or more that it had
\* not read: the daemon stored it while the pass was at its prompt.
C37_Witness ==
    /\ ~reviewPass.open /\ reviewPass.ended = "marked"
    /\ reviewPass.rows = Len(eventsTable)
    /\ \A i \in 1..Len(eventsTable) :
          eventsTable[i].id \in PassIds => eventsTable[i].reviewed = 1
    /\ \E i \in 1..Len(eventsTable) :
          /\ eventsTable[i].id \notin PassIds
          /\ eventsTable[i].reviewed = 0 /\ eventsTable[i].importance >= 3


\* The step in which the user quits a review pass.
PassQuits == reviewPass.open /\ reviewPass'.ended = "quit"

\* C38: when the user quits a review pass, the entries approved before
\* are rows of kb_entries with approved set, the events table is as it
\* was, so no event of the pass is reviewed, no review session is
\* recorded, and whatever get_unreviewed_events returns next holds every
\* event the pass had read.
C38_QuitKeepsApprovedOnly ==
    [][PassQuits =>
          /\ Len(kbEntries') >= Len(kbEntries)
          /\ \A k \in 1..Len(kbEntries') :
                IF k <= Len(kbEntries) THEN kbEntries'[k] = kbEntries[k]
                ELSE kbEntries'[k].approved = 1
          /\ eventsTable' = eventsTable
          /\ \A i \in 1..Len(eventsTable') :
                eventsTable'[i].id \in PassIds => eventsTable'[i].reviewed = 0
          /\ reviewSessions' = reviewSessions
          /\ \A next \in GetUnreviewedEvents(eventsTable', 3) :
                Range(reviewPass.events) \subseteq Range(next)]_vars

\* C38 witness: the user has quit the first review pass after approving
\* an entry: the entry is approved, the events read are unreviewed and
\* there is no review session.
C38_Witness ==
    /\ ~reviewPass.open /\ reviewPass.ended = "quit"
    /\ reviewsRun = 0 /\ reviewSessions = 0
    /\ kbEntries # <<>>
    /\ \A k \in 1..Len(kbEntries) : kbEntries[k].approved = 1
    /\ reviewPass.events # <<>>
    /\ \A i \in 1..Len(eventsTable) : eventsTable[i].reviewed = 0


\* C39: whatever start commands run and however they interleave, at most
\* one daemon process runs, and while one runs the PID file holds its pid.
C39_OneDaemonNamedByPidFile ==
    /\ Cardinality(Daemons) <= 1
    /\ \A p \in Daemons : pidFile = <<p>>

\* Two background starts have both passed their check and both spawned a
\* daemon.
BothChecksPassed ==
    /\ Cardinality(Daemons) >= 2
    /\ lastCmd.command = "start" /\ lastCmd.exit = <<0>>
    /\ lastCmd.fileBefore # <<>> /\ procs[lastCmd.fileBefore[1]] = "daemon"


\* C40: the trigger of an iteration is decided from the elapsed time and
\* the buffer size before that iteration's drain.  An iteration whose
\* drain brings the buffer to batch_size or more, the buffer having been
\* below it and the interval not elapsed at the trigger check, dispatches
\* nothing and keeps its buffer; an iteration that finds the buffer at
\* batch_size or more at its trigger check dispatches the whole buffer as
\* it is after its own drain, which empties the buffer.
C40_SizeTriggerActsNextTick ==
    [][/\ (alive /\ pc = "head" /\ pc' = "drain") =>
             shouldProcess' = (tickElapsed' >= ProcessInterval
                               \/ Len(buffer) >= BatchSize)
       /\ (TickEnds /\ tickLen < BatchSize /\ tickElapsed < ProcessInterval) =>
             /\ batches' = batches
             /\ buffer' = buffer
       /\ (TickEnds /\ tickLen >= BatchSize) =>
             /\ batches' = Append(batches, buffer)
             /\ Len(buffer) >= tickLen
             /\ buffer' = <<>>]_vars

\* C40 witness: an iteration has dispatched on the size trigger, before
\* the interval had elapsed, a batch longer than batch_size and longer
\* than the buffer was at its trigger check.
C40_Witness ==
    /\ IterationDone /\ dispatched
    /\ tickLen >= BatchSize /\ tickElapsed < ProcessInterval
    /\ batches # <<>>
    /\ Len(batches[Len(batches)]) > BatchSize
    /\ Len(batches[Len(batches)]) > tickLen


====
